---- MODULE Spec2Model ----
(***************************************************************************)
(* mevi: the tracer / userfault worker / relay / subscriber pipeline of    *)
(* crates/mevi/src (main.rs, tracer.rs, userfault.rs) as a state machine.  *)
(*                                                                         *)
(* Addresses are page numbers 0..MaxAddr (the page size is 1), a range is  *)
(* the half-open interval [lo, hi).  The kernel side (tracee processes,    *)
(* their mappings, the userfaultfd registration) is the environment; the   *)
(* three threads and the WebSocket tasks are translated from the source.   *)
(***************************************************************************)
EXTENDS Integers, Sequences, FiniteSets, TLC

(* ------------------------------ bounds --------------------------------- *)
\* pages of the address space, and the longest range one mmap returns
MaxAddr == 10
MaxLen == 2
\* system calls and kills, page writes, subscribers of a run
MaxOps == 2
MaxTouches == 1
MaxSubs == 1
\* system calls (or page writes and page drops) of a flood
MaxFlood == 9
\* pages of the range whose page faults are batched: written in any order,
\* and of the long range that is written front to back
MaxBatch == 3
MaxLong == 515
MaxForkOps == 3
\* pages the heap may grow to above its base, and brk calls of a run
MaxHeap == 3
MaxBrkOps == 4
\* zero-fill calls for one page fault that return EAGAIN
MaxRetry == 2
\* bits of a machine word: usize values are 0..(Word - 1), and usize
\* arithmetic is modulo Word (the program's words have 64 bits)
WordBits == 5

(* ------------------------- program constants --------------------------- *)
\* mpsc::sync_channel::<MeviEvent>(16)
EvCap == 16
\* broadcast::channel(16)
BcastCap == 16
\* TraceeState::BATCH_SIZE
BATCH_SIZE == 512

Word == 2 ^ WordBits
\* the value a failed system call leaves in rax: -errno as an unsigned word
ErrRet == Word - 1
\* the heap of a process starts above the area mmap allocates from
HeapBase == MaxAddr

RootTid == 1
ChildTid == 2
Tids == {RootTid, ChildTid}
Subs == 1..MaxSubs
NoTid == 0

(* ------------------------------ MemMap --------------------------------- *)
\* type MemMap = RangeMap<usize, MemState>: a sequence of [lo, hi, st]
\* entries, sorted by lo, pairwise disjoint, touching equal-state entries
\* merged.
EmptyMap == <<>>

Min2(a, b) == IF a < b THEN a ELSE b
Max2(a, b) == IF a > b THEN a ELSE b

Ent(lo, hi, st) == [lo |-> lo, hi |-> hi, st |-> st]

\* RangeMap::remove: every stored entry keeps only its parts outside [s, e).
RECURSIVE MapRemove(_, _, _)
MapRemove(m, s, e) ==
  IF m = <<>> THEN <<>>
  ELSE LET h == Head(m)
           left == IF h.lo < Min2(h.hi, s)
                   THEN <<Ent(h.lo, Min2(h.hi, s), h.st)>> ELSE <<>>
           right == IF Max2(h.lo, e) < h.hi
                    THEN <<Ent(Max2(h.lo, e), h.hi, h.st)>> ELSE <<>>
       IN left \o right \o MapRemove(Tail(m), s, e)

RECURSIVE EntsBefore(_, _)
EntsBefore(m, s) ==
  IF m = <<>> \/ Head(m).lo >= s THEN <<>>
  ELSE <<Head(m)>> \o EntsBefore(Tail(m), s)

RECURSIVE EntsAfter(_, _)
EntsAfter(m, s) ==
  IF m = <<>> THEN <<>>
  ELSE IF Head(m).lo >= s THEN m ELSE EntsAfter(Tail(m), s)

\* (mutant) the new range is stored without merging it with its neighbours
MapInsertNoMerge(m, s, e, st) ==
  LET cut == MapRemove(m, s, e)
  IN EntsBefore(cut, s) \o <<Ent(s, e, st)>> \o EntsAfter(cut, s)

\* RangeMap::insert: the new range overwrites what it overlaps and is merged
\* with a touching neighbour of the same state on either side.
MapInsert(m, s, e, st) ==
  LET cut == MapRemove(m, s, e)
      bef == EntsBefore(cut, s)
      aft == EntsAfter(cut, s)
      ml == bef # <<>> /\ bef[Len(bef)].hi = s /\ bef[Len(bef)].st = st
      mr == aft # <<>> /\ aft[1].lo = e /\ aft[1].st = st
      lo2 == IF ml THEN bef[Len(bef)].lo ELSE s
      hi2 == IF mr THEN aft[1].hi ELSE e
      bef2 == IF ml THEN SubSeq(bef, 1, Len(bef) - 1) ELSE bef
      aft2 == IF mr THEN Tail(aft) ELSE aft
  IN bef2 \o <<Ent(lo2, hi2, st)>> \o aft2

\* The state the map holds at page p ("none" when p is in no entry).
RECURSIVE MapAt(_, _)
MapAt(m, p) ==
  IF m = <<>> THEN "none"
  ELSE IF Head(m).lo <= p /\ p < Head(m).hi THEN Head(m).st
  ELSE MapAt(Tail(m), p)

MapPages(m) == UNION {m[i].lo..(m[i].hi - 1) : i \in 1..Len(m)}

Ranges == {r \in (0..MaxAddr) \X (0..MaxAddr) : r[1] < r[2]}
RangePages(lo, hi) == lo..(hi - 1)

(* ------------------------------ state ---------------------------------- *)
VARIABLES
  \* kernel / tracee processes (environment)
  ts,          \* [Tids -> "unborn", "run", "entry", "exit", "forkev", "vforkev",
               \*  "cloneev", "sigstop", "fault", "exited", "signaled", "reaped"]
  sc,          \* [Tids -> syscall in progress: nr, ret range]
  mm,          \* [Tids -> pages mapped by anonymous mmap]
  present,     \* [Tids -> pages that have a physical page]
  image,       \* [Tids -> number of execve calls that succeeded]
  reg,         \* pages registered with the root tracee's userfaultfd
  fd,          \* the descriptor: "none", "open", "closed"
  uq,          \* events the kernel queued on the userfaultfd
  budget,      \* what the tracees may still do
  \* tracer thread
  tr,          \* Tracer::tracees: [Tids -> known, was_in_syscall, heap_range]
  next_parent, \* Tracer::next_parent
  tpc,         \* "wait", "guard", "exited"
  tcur,        \* the tid whose Map the tracer waits on
  puh,         \* PendingUffds: [Tids -> queue of descriptors]
  \* userfault worker thread
  wpc,         \* "accept", "read", "send", "dead"
  wev,         \* the userfault event being handled
  \* event channel and the Map guard
  chan,        \* mpsc::sync_channel(16)
  guard,       \* who holds the MapGuard sender: "none", "chan", "relay"
  nsent,       \* per source: events sent so far
  nrecv,       \* per source: events received so far
  \* relay thread
  rpc,         \* "timed", "untimed", "flush", "pre", "post"
  tracees,     \* HashMap<TraceeId, TraceeState>
  cur,         \* the event being processed
  outbox,      \* frames the relay has still to hand to blocking_send
  emitted,     \* frames produced while processing cur, in order
  \* broadcast channel and subscribers
  sub,         \* [Subs -> "off", "subscribed", "on"]
  inbox,       \* [Subs -> frames sent and not yet consumed]
  first,       \* [Subs -> kind of the first frame consumed]
  firstEv,     \* [Subs -> [Tids -> kind of the first frame consumed for the tid]]
  \* history
  exitApplied, \* tids whose Exit the relay has applied
  exitSent,    \* tids for which the tracer sent Exit
  preExec,     \* [Tids -> pages in the map when Execve was applied, until
               \*  the next Map is applied]
  mapsApplied, \* [Tids -> pages of the Map events the relay has applied]
  paged,       \* [Tids -> pages for which the relay applied a PageIn, PageOut
               \*  or Remap since the last Map that covers them]
  everReg,     \* tids whose TraceeState has had a Map registered with success
  replay       \* [Tids -> the map a subscriber builds from the frames produced
               \*  for the tid since its Start]

envVars == <<ts, sc, mm, present, image, reg, fd, uq, budget>>
tracerVars == <<tr, next_parent, tpc, tcur, puh>>
workerVars == <<wpc, wev>>
chanVars == <<chan, guard, nsent, nrecv>>
relayVars == <<rpc, tracees, cur, outbox, emitted>>
subVars == <<sub, inbox, first, firstEv>>
histVars == <<exitApplied, exitSent, preExec, mapsApplied, paged, everReg, replay>>
vars == <<envVars, tracerVars, workerVars, chanVars, relayVars, subVars, histVars>>

Sources == {"tracer", "worker", "sub"}

\* MeviEvent as it travels the event channel; src and seq are bookkeeping
\* of the model (who sent it, and as which of its events).  old is the start
\* of old_range of a Remap (its new_range is [lo, hi)), 0 in other events.
Ev(kind, tid, lo, hi, st, src, seq) ==
  [kind |-> kind, tid |-> tid, lo |-> lo, hi |-> hi, st |-> st,
   src |-> src, seq |-> seq, old |-> 0]
NoEv == Ev("none", NoTid, 0, 0, "none", "none", 0)

\* A serialized frame handed to the broadcast channel.
Frame(kind, tid, lo, hi, st, map, snap, cmdline) ==
  [kind |-> kind, tid |-> tid, lo |-> lo, hi |-> hi, st |-> st,
   map |-> map, snap |-> snap, cmdline |-> cmdline, old |-> 0]
EvFrame(ev) ==
  [Frame(ev.kind, ev.tid, ev.lo, ev.hi, ev.st, EmptyMap, <<>>, 0) EXCEPT !.old = ev.old]
BatchFrame(tid, batch) == Frame("Batch", tid, 0, 0, "none", batch, <<>>, 0)
StartFrame(tid, cmdline) == Frame("Start", tid, 0, 0, "none", EmptyMap, <<>>, cmdline)
SnapshotFrame(snap) == Frame("Snapshot", NoTid, 0, 0, "none", EmptyMap, snap, 0)

\* Tracee::heap_range, an Option<Range<usize>> (set: Some).
NoHeap == [set |-> FALSE, lo |-> 0, hi |-> 0]

\* The registers of a system call: its number (orig_rax), first argument
\* (rdi), length argument (rsi) and, at the exit stop, its result (rax).
NoSc == [nr |-> "none", arg |-> 0, len |-> 0, ret |-> 0]

\* struct TraceeState; live says whether the HashMap holds an entry for the
\* tid, uffd is the Option<Uffd> (TRUE: Some) and ufd the raw descriptor it
\* wraps (0: none).  pendIn and pendOut are
\* history: the pages whose last update since the last flush was a PageIn,
\* or a PageOut.
NoTracee ==
  [live |-> FALSE, cmdline |-> 0, map |-> EmptyMap, batch |-> EmptyMap,
   batch_size |-> 0, uffd |-> FALSE, ufd |-> 0, printed_uffd_warning |-> FALSE,
   pendIn |-> {}, pendOut |-> {}]

Init ==
  /\ ts = [t \in Tids |-> IF t = RootTid THEN "run" ELSE "unborn"]
  /\ sc = [t \in Tids |-> NoSc]
  /\ mm = [t \in Tids |-> {}]
  /\ present = [t \in Tids |-> {}]
  /\ image = [t \in Tids |-> 0]
  /\ reg = {}
  /\ fd = "none"
  /\ uq = <<>>
  /\ budget = [ops |-> MaxOps, touch |-> MaxTouches, subs |-> MaxSubs,
               evict |-> 0,
               kinds |-> {"mmap", "munmap", "mremap", "execve", "fork"},
               maxlen |-> MaxLen, seq |-> FALSE, pend |-> 0, fail |-> {}]
  /\ tr = [t \in Tids |-> [known |-> FALSE, was |-> FALSE, heap |-> NoHeap]]
  /\ next_parent = NoTid
  /\ tpc = "wait"
  /\ tcur = NoTid
  /\ puh = [t \in Tids |-> <<>>]
  /\ wpc = "accept"
  /\ wev = NoEv
  /\ chan = <<>>
  /\ guard = "none"
  /\ nsent = [s \in Sources |-> 0]
  /\ nrecv = [s \in Sources |-> 0]
  /\ rpc = "timed"
  /\ tracees = [t \in Tids |-> NoTracee]
  /\ cur = NoEv
  /\ outbox = <<>>
  /\ emitted = <<>>
  /\ sub = [s \in Subs |-> "off"]
  /\ inbox = [s \in Subs |-> <<>>]
  /\ first = [s \in Subs |-> "none"]
  /\ firstEv = [s \in Subs |-> [t \in Tids |-> "none"]]
  /\ exitApplied = {}
  /\ exitSent = {}
  /\ preExec = [t \in Tids |-> {}]
  /\ mapsApplied = [t \in Tids |-> {}]
  /\ paged = [t \in Tids |-> {}]
  /\ everReg = {}
  /\ replay = [t \in Tids |-> tracees[t].map]

(* --------------------------- event channel ----------------------------- *)
\* (mutant) a send never waits for room
CanSendUnbounded == TRUE

\* SyncSender::send returns once the buffer of 16 has room; until then the
\* sender is blocked.  Once the relay thread is gone, and the receiver with
\* it, send returns an error and the sender's unwrap panics: the model does
\* not follow a sender beyond that point.
CanSend == Len(chan) < EvCap /\ rpc # "dead"

\* The channel after src sent an event of the given content.
Sent(kind, tid, lo, hi, st, src) ==
  Append(chan, Ev(kind, tid, lo, hi, st, src, nsent[src] + 1))

Alive == tpc # "exited"

(* ------------------------ tracees and the kernel ----------------------- *)
Gone(t) == ts[t] \in {"unborn", "exited", "signaled", "reaped"}

\* The system calls that make a new task, and the ptrace event stop each
\* puts its caller in (TRACEFORK, TRACEVFORK, TRACECLONE are set).
Spawns == {"fork", "vfork", "clone"}
EventStop(nr) ==
  CASE nr = "fork" -> "forkev"
    [] nr = "vfork" -> "vforkev"
    [] nr = "clone" -> "cloneev"
EventStops == {EventStop(nr) : nr \in Spawns}

\* A tracee enters a system call: the syscall-entry stop.
SyscallEnter(t, nr) ==
  /\ ts[t] = "run"
  /\ budget.ops > 0
  /\ nr \in budget.kinds
  /\ nr \in Spawns => t = RootTid /\ ts[ChildTid] = "unborn"
  /\ budget' = [budget EXCEPT !.ops = @ - 1]
  /\ ts' = [ts EXCEPT ![t] = "entry"]
  /\ sc' = [sc EXCEPT ![t] = [NoSc EXCEPT !.nr = nr]]
  /\ UNCHANGED <<mm, present, image, reg, fd, uq>>
  /\ UNCHANGED <<tracerVars, workerVars, chanVars, relayVars, subVars, histVars>>

\* The ranges an anonymous mmap without address hint may return: free
\* pages at the lowest free address.
FirstFree(t) ==
  IF \E p \in 0..(MaxAddr - 1) : p \notin mm[t]
  THEN CHOOSE p \in 0..(MaxAddr - 1) :
         p \notin mm[t] /\ \A q \in 0..(MaxAddr - 1) : q \notin mm[t] => p <= q
  ELSE MaxAddr
MmapRanges(t) ==
  {r \in Ranges : /\ r[1] = FirstFree(t)
                  /\ r[2] - r[1] <= budget.maxlen
                  /\ RangePages(r[1], r[2]) \cap mm[t] = {}}

\* The lengths of the mmap calls that fail: a call of length 0 (EINVAL), a
\* call for which there is no room (ENOMEM), or any call refused for
\* another reason (a limit, an overcommit policy).
MmapFailLens(t) ==
  IF "mmap" \in budget.fail THEN 0..budget.maxlen
  ELSE IF MmapRanges(t) = {} THEN 1..budget.maxlen ELSE {}

\* The heap of a process: the pages from HeapBase up to its program break.
HeapPages == HeapBase..(HeapBase + MaxHeap - 1)
Break(t) == HeapBase + Cardinality(mm[t] \cap HeapPages)

\* brk(arg) and what it returns: brk(0), or any address below the heap, is
\* a query and returns the break; a break the kernel accepts becomes the
\* break and is returned; a call it refuses returns the old break.
BrkResults(t) ==
  {<<0, Break(t)>>}
    \cup {<<a, a>> : a \in HeapBase..(HeapBase + MaxHeap)}
    \cup {<<a, Break(t)>> : a \in (HeapBase + 1)..(HeapBase + MaxHeap)}

\* The ranges munmap may be called on: mapped pages, whole.
MunmapRanges(t) ==
  {r \in Ranges : /\ r[2] - r[1] <= budget.maxlen
                  /\ RangePages(r[1], r[2]) \subseteq mm[t]}

\* The ranges mremap may move: mapped, and with room for them at the lowest
\* free address.
MremapRanges(t) ==
  {r \in MunmapRanges(t) :
     /\ FirstFree(t) + r[2] - r[1] <= MaxAddr
     /\ RangePages(FirstFree(t), FirstFree(t) + r[2] - r[1]) \cap mm[t] = {}}

\* Where the pages of S that lie in r are after r has moved to the lowest
\* free address.
Moved(t, r, S) ==
  {FirstFree(t) + (p - r[1]) : p \in S \cap RangePages(r[1], r[2])}

\* The range is registered, whole, with the userfaultfd of the root tracee:
\* the kernel reports what happens to it.
Watched(t, lo, hi) == t = RootTid /\ RangePages(lo, hi) \subseteq reg

\* An event the kernel queues on the userfaultfd.
UffdEv(kind, t, lo, hi, old) ==
  [Ev(kind, t, lo, hi, "none", "none", 0) EXCEPT !.old = old]

\* The kernel runs the system call of a tracee resumed at its entry stop, up
\* to the next stop: the world after it, for each result the call may have.
\* A mmap that finds no free range, and any other failure, leaves the
\* address space as it is.
SyscallOutcomes(t) ==
  LET now == [ts |-> ts, sc |-> sc, mm |-> mm, present |-> present,
              image |-> image, reg |-> reg, uq |-> uq]
  IN CASE sc[t].nr = "mmap" ->
            {[now EXCEPT !.ts[t] = "exit",
                         !.mm[t] = @ \cup RangePages(r[1], r[2]),
                         !.sc[t] = [nr |-> "mmap", arg |-> 0, len |-> r[2] - r[1],
                                   ret |-> r[1]]]
              : r \in MmapRanges(t)}
            \cup {[now EXCEPT !.ts[t] = "exit",
                              !.sc[t] = [nr |-> "mmap", arg |-> 0, len |-> n,
                                        ret |-> ErrRet]]
                  : n \in MmapFailLens(t)}
       [] sc[t].nr = "brk" ->
            {[now EXCEPT !.ts[t] = "exit",
                         !.mm[t] = (@ \ HeapPages) \cup RangePages(HeapBase, b[2]),
                         !.present[t] = (@ \ HeapPages) \cup RangePages(HeapBase, b[2]),
                         !.reg = IF t = RootTid THEN @ \ RangePages(b[2], Break(t)) ELSE @,
                         !.uq = IF b[2] < Break(t) /\ Watched(t, b[2], Break(t))
                                THEN Append(@, UffdEv("unmap", t, b[2], Break(t), 0))
                                ELSE @,
                         !.sc[t] = [nr |-> "brk", arg |-> b[1], len |-> 0, ret |-> b[2]]]
              : b \in BrkResults(t)}
       [] sc[t].nr = "munmap" ->
            {[now EXCEPT !.ts[t] = "exit",
                         !.mm[t] = @ \ RangePages(r[1], r[2]),
                         !.present[t] = @ \ RangePages(r[1], r[2]),
                         !.reg = IF t = RootTid THEN @ \ RangePages(r[1], r[2]) ELSE @,
                         !.uq = IF Watched(t, r[1], r[2])
                                THEN Append(@, UffdEv("unmap", t, r[1], r[2], 0))
                                ELSE @]
              : r \in MunmapRanges(t)} \cup {[now EXCEPT !.ts[t] = "exit"]}
       [] sc[t].nr = "mremap" ->
            {[now EXCEPT !.ts[t] = "exit",
                         !.mm[t] = (@ \ RangePages(r[1], r[2])) \cup Moved(t, r, @),
                         !.present[t] = (@ \ RangePages(r[1], r[2]))
                                          \cup Moved(t, r, present[t]),
                         !.reg = IF t = RootTid
                                 THEN (@ \ RangePages(r[1], r[2])) \cup Moved(t, r, @)
                                 ELSE @,
                         !.uq = IF Watched(t, r[1], r[2])
                                THEN Append(@, UffdEv("remap", t, FirstFree(t),
                                                      FirstFree(t) + r[2] - r[1], r[1]))
                                ELSE @]
              : r \in MremapRanges(t)} \cup {[now EXCEPT !.ts[t] = "exit"]}
       [] sc[t].nr = "execve" ->
            {[now EXCEPT !.ts[t] = "exit",
                         !.image[t] = @ + 1,
                         !.mm[t] = {},
                         !.present[t] = {},
                         !.reg = IF t = RootTid THEN {} ELSE @]}
            \cup (IF "execve" \in budget.fail
                  THEN {[now EXCEPT !.ts[t] = "exit", !.sc[t].ret = ErrRet]}
                  ELSE {})
       [] sc[t].nr \in Spawns ->
            {[now EXCEPT !.ts[t] = EventStop(sc[t].nr),
                         !.ts[ChildTid] = "sigstop",
                         !.mm[ChildTid] = mm[t],
                         !.present[ChildTid] = present[t],
                         !.image[ChildTid] = image[t]]}
       [] OTHER -> {[now EXCEPT !.ts[t] = "exit"]}

\* A running tracee writes to a page it mapped and that has no physical page
\* yet: a registered page raises a userfault and blocks the tracee, any
\* other page is zero-filled by the kernel without a notification.
Touch(t, p) ==
  /\ ts[t] = "run"
  /\ budget.touch > 0
  /\ p \in mm[t] \ present[t]
  /\ budget' = [budget EXCEPT !.touch = @ - 1]
  /\ IF t = RootTid /\ p \in reg
     THEN /\ ts' = [ts EXCEPT ![t] = "fault"]
          /\ uq' = Append(uq, Ev("fault", t, p, p + 1, "none", "none", 0))
          /\ present' = present
     ELSE /\ present' = [present EXCEPT ![t] = @ \cup {p}]
          /\ UNCHANGED <<ts, uq>>
  /\ UNCHANGED <<sc, mm, image, reg, fd>>
  /\ UNCHANGED <<tracerVars, workerVars, chanVars, relayVars, subVars, histVars>>

\* madvise(MADV_DONTNEED) on a resident registered page: the kernel drops the
\* page and queues a Remove event.
Evict(t, p) ==
  /\ ts[t] = "run"
  /\ budget.evict > 0
  /\ t = RootTid /\ p \in reg /\ p \in present[t]
  /\ budget' = [budget EXCEPT !.evict = @ - 1]
  /\ present' = [present EXCEPT ![t] = @ \ {p}]
  /\ uq' = Append(uq, Ev("remove", t, p, p + 1, "none", "none", 0))
  /\ UNCHANGED <<ts, sc, mm, image, reg, fd>>
  /\ UNCHANGED <<tracerVars, workerVars, chanVars, relayVars, subVars, histVars>>

\* The address space of a terminated process is torn down.
Teardown(t) ==
  /\ mm' = [mm EXCEPT ![t] = {}]
  /\ present' = [present EXCEPT ![t] = {}]
  /\ reg' = IF t = RootTid THEN {} ELSE reg

\* exit_group: the tracee terminates normally.
ProcExit(t) ==
  /\ ts[t] = "run"
  /\ ts' = [ts EXCEPT ![t] = "exited"]
  /\ Teardown(t)
  /\ UNCHANGED <<sc, image, fd, uq, budget>>
  /\ UNCHANGED <<tracerVars, workerVars, chanVars, relayVars, subVars, histVars>>

\* SIGKILL: the tracee is terminated by a signal, also while it is stopped
\* at a syscall exit.
ProcKill(t) ==
  /\ ts[t] \in {"run", "exit"}
  /\ budget.ops > 0
  /\ budget' = [budget EXCEPT !.ops = @ - 1]
  /\ ts' = [ts EXCEPT ![t] = "signaled"]
  /\ Teardown(t)
  /\ UNCHANGED <<sc, image, fd, uq>>
  /\ UNCHANGED <<tracerVars, workerVars, chanVars, relayVars, subVars, histVars>>

(* ------------------------------- tracer -------------------------------- *)
\* ptrace::syscall(pid, ..) on a tracee stopped elsewhere than at a syscall
\* entry: it runs on to its next stop; for a tracee that is gone the call
\* returns ESRCH and changes nothing.
Resumed(t) ==
  CASE ts[t] = "exit" -> [ts EXCEPT ![t] = "run"]
    [] ts[t] = "sigstop" -> [ts EXCEPT ![t] = "run"]
    [] ts[t] \in EventStops -> [ts EXCEPT ![t] = "exit"]
    [] OTHER -> ts

\* What on_sys_exit comes to: nothing, an Execve it has sent, a Mapped it
\* returns, or a panic; and heap_range after it.
Decoded(kind, lo, hi, st, heap) ==
  [kind |-> kind, lo |-> lo, hi |-> hi, st |-> st, heap |-> heap]
Nothing(heap) == Decoded("None", 0, 0, "none", heap)

\* (mutant) a brk that moved the top is reported, grown or shrunk
OnBrkAnyMove(h, arg, ret) ==
  IF arg = 0
  THEN Nothing(IF h.set THEN h ELSE [set |-> TRUE, lo |-> ret, hi |-> ret])
  ELSE IF h.set
  THEN IF ret # h.hi
       THEN Decoded("Mapped", h.hi, ret, "Resident", [h EXCEPT !.hi = ret])
       ELSE Nothing([h EXCEPT !.hi = ret])
  ELSE Nothing(h)

\* The libc::SYS_brk arm of on_sys_exit, for heap_range h, rdi arg and rax
\* ret.
OnBrk(h, arg, ret) ==
  IF arg = 0
  THEN Nothing(IF h.set THEN h ELSE [set |-> TRUE, lo |-> ret, hi |-> ret])
  ELSE IF h.set
  THEN IF ret > h.hi
       THEN Decoded("Mapped", h.hi, ret, "Resident", [h EXCEPT !.hi = ret])
       ELSE Nothing([h EXCEPT !.hi = ret])
  ELSE Nothing(h)

\* The libc::SYS_mmap arm (fd == -1 && addr_in == 0: the calls modelled
\* are anonymous and without hint).  ret + len is a usize addition: when it
\* overflows a build with overflow checks panics, a build without them
\* wraps around.
OnMmap(h, len, ret) ==
  IF ret + len >= Word
  THEN {Decoded("Panic", 0, 0, "none", h),
        Decoded("Mapped", ret, (ret + len) % Word, "NotResident", h)}
  ELSE {Decoded("Mapped", ret, ret + len, "NotResident", h)}

\* Tracee::on_sys_exit: what the registers of the stop decode to.
OnSysExit(t) ==
  CASE sc[t].nr = "execve" -> {Decoded("Execve", 0, 0, "none", NoHeap)}
    [] sc[t].nr = "mmap" -> OnMmap(tr[t].heap, sc[t].len, sc[t].ret)
    [] sc[t].nr = "brk" -> {OnBrk(tr[t].heap, sc[t].arg, sc[t].ret)}
    [] OTHER -> {Nothing(tr[t].heap)}

MapNoWait == FALSE

\* The tracer waits for the guard of a Map it sent (rx.recv() returns once
\* every clone of the guard's sender is dropped); FALSE: it resumes at once.
MapWaitsForGuard == TRUE

\* (mutant) every syscall stop is decoded
IsSysExitAlways(t) == TRUE

\* if tracee.was_in_syscall: the stop is taken for a syscall exit.
IsSysExit(t) == tr[t].was

\* WaitStatus::PtraceSyscall(pid).  The stop is handled as a syscall exit
\* when was_in_syscall says so, else as an entry; ptrace::syscall then
\* resumes the tracee: from an entry stop the kernel runs the call.
TracerSyscallStop(t) ==
  /\ Alive /\ tpc = "wait"
  /\ ts[t] \in {"entry", "exit"}
  /\ \E d \in (IF IsSysExit(t) THEN OnSysExit(t) ELSE {Nothing(tr[t].heap)}) :
       LET sends == d.kind \in {"Execve", "Mapped"}
           waits == d.kind = "Mapped" /\ MapWaitsForGuard
           stays == waits \/ d.kind = "Panic"
       IN /\ tr' = [tr EXCEPT ![t] = [known |-> TRUE, was |-> ~tr[t].was,
                                      heap |-> d.heap]]
          /\ sends => CanSend
          /\ chan' = IF ~sends THEN chan
                     ELSE IF d.kind = "Execve"
                     THEN Sent("Execve", t, 0, 0, "none", "tracer")
                     ELSE Sent("Map", t, d.lo, d.hi, d.st, "tracer")
          /\ nsent' = IF sends THEN [nsent EXCEPT !["tracer"] = @ + 1] ELSE nsent
          /\ guard' = IF d.kind = "Mapped" THEN "chan" ELSE guard
          /\ tpc' = IF d.kind = "Panic" THEN "panicked"
                    ELSE IF waits THEN "guard" ELSE tpc
          /\ tcur' = IF waits THEN t ELSE tcur
          /\ IF stays
             THEN UNCHANGED <<ts, sc, mm, present, image, reg, uq>>
             ELSE IF ts[t] = "entry"
             THEN \E w \in SyscallOutcomes(t) :
                    /\ ts' = w.ts /\ sc' = w.sc /\ mm' = w.mm
                    /\ present' = w.present /\ image' = w.image /\ reg' = w.reg
                    /\ uq' = w.uq
             ELSE /\ ts' = Resumed(t)
                  /\ UNCHANGED <<sc, mm, present, image, reg, uq>>
  /\ UNCHANGED <<fd, budget>>
  /\ UNCHANGED <<next_parent, puh, nrecv>>
  /\ UNCHANGED <<workerVars, relayVars, subVars, histVars>>

\* rx.recv() on the guard channel returned: resume the tracee.
TracerGuardDone ==
  /\ Alive /\ tpc = "guard"
  /\ guard = "none"
  /\ tpc' = "wait"
  /\ tcur' = NoTid
  /\ IF ts[tcur] = "entry"
     THEN \E w \in SyscallOutcomes(tcur) :
            /\ ts' = w.ts /\ sc' = w.sc /\ mm' = w.mm
            /\ present' = w.present /\ image' = w.image /\ reg' = w.reg
            /\ uq' = w.uq
     ELSE /\ ts' = Resumed(tcur)
          /\ UNCHANGED <<sc, mm, present, image, reg, uq>>
  /\ UNCHANGED <<fd, budget>>
  /\ UNCHANGED <<tr, next_parent, puh>>
  /\ UNCHANGED <<workerVars, chanVars, relayVars, subVars, histVars>>

\* A SIGSTOP sent to a running tracee from outside (kill -STOP): a
\* signal-delivery stop, reported to the tracer as Stopped(pid, SIGSTOP) like
\* the first stop of a new child.
ProcSigstop(t) ==
  /\ Alive
  /\ "sigstop" \in budget.fail /\ budget.ops > 0
  /\ ts[t] = "run"
  /\ ts' = [ts EXCEPT ![t] = "sigstop"]
  /\ budget' = [budget EXCEPT !.ops = @ - 1]
  /\ UNCHANGED <<sc, mm, present, image, reg, fd, uq>>
  /\ UNCHANGED <<tracerVars, workerVars, chanVars, relayVars, subVars, histVars>>

\* WaitStatus::Stopped(pid, SIGSTOP)
TracerSigstop(t) ==
  /\ Alive /\ tpc = "wait"
  /\ ts[t] = "sigstop"
  /\ next_parent' = NoTid
  /\ IF next_parent # NoTid /\ puh[next_parent] # <<>>
     THEN /\ CanSend
          /\ puh' = [puh EXCEPT ![next_parent] = Tail(@)]
          /\ chan' = Sent("Connected", t, Head(puh[next_parent]), 0, "Fork", "tracer")
          /\ nsent' = [nsent EXCEPT !["tracer"] = @ + 1]
     ELSE UNCHANGED <<puh, chan, nsent>>
  /\ ts' = Resumed(t)
  /\ UNCHANGED <<sc, mm, present, image, reg, fd, uq, budget>>
  /\ UNCHANGED <<tr, tpc, tcur, guard, nrecv>>
  /\ UNCHANGED <<workerVars, relayVars, subVars, histVars>>

\* (mutant) every ptrace event arms next_parent
ArmsOnAnyEvent(stop) == TRUE

\* if event == libc::PTRACE_EVENT_FORK
ArmsNextParent(stop) == stop = "forkev"

\* WaitStatus::PtraceEvent(pid, sig, event)
TracerPtraceEvent(t) ==
  /\ Alive /\ tpc = "wait"
  /\ ts[t] \in EventStops
  /\ next_parent' = IF ArmsNextParent(ts[t]) THEN t ELSE next_parent
  /\ ts' = Resumed(t)
  /\ UNCHANGED <<sc, mm, present, image, reg, fd, uq, budget>>
  /\ UNCHANGED <<tr, tpc, tcur, puh>>
  /\ UNCHANGED <<workerVars, chanVars, relayVars, subVars, histVars>>

\* A stop of a tracee that is killed (SIGKILL) after waitpid reported the
\* stop and before the tracer's next ptrace call for it: the call returns
\* ESRCH.  In the SIGSTOP and PtraceEvent arms ptrace::syscall(..)? returns
\* the error from run, and run().unwrap() panics; at a syscall entry the
\* error is logged; at a syscall exit ptrace::getregs(..)? in on_sys_exit
\* returns it the same way.
TracerStopEsrch(t) ==
  /\ Alive /\ tpc = "wait"
  /\ "esrch" \in budget.fail /\ budget.ops > 0
  /\ ts[t] \in {"entry", "exit", "sigstop"} \cup EventStops
  /\ budget' = [budget EXCEPT !.ops = @ - 1]
  /\ ts' = [ts EXCEPT ![t] = "signaled"]
  /\ Teardown(t)
  /\ tr' = IF ts[t] \in {"entry", "exit"}
           THEN [tr EXCEPT ![t].known = TRUE, ![t].was = ~tr[t].was]
           ELSE tr
  /\ next_parent' = IF ts[t] = "sigstop" THEN NoTid
                    ELSE IF ts[t] \in EventStops /\ ArmsNextParent(ts[t]) THEN t
                    ELSE next_parent
  /\ IF ts[t] = "sigstop" /\ next_parent # NoTid /\ puh[next_parent] # <<>>
     THEN /\ CanSend
          /\ puh' = [puh EXCEPT ![next_parent] = Tail(@)]
          /\ chan' = Sent("Connected", t, Head(puh[next_parent]), 0, "Fork", "tracer")
          /\ nsent' = [nsent EXCEPT !["tracer"] = @ + 1]
     ELSE UNCHANGED <<puh, chan, nsent>>
  /\ tpc' = IF ts[t] \in {"entry", "exit"} /\ ~IsSysExit(t) THEN "wait" ELSE "panicked"
  /\ UNCHANGED <<sc, image, fd, uq>>
  /\ UNCHANGED <<tcur, guard, nrecv>>
  /\ UNCHANGED <<workerVars, relayVars, subVars, histVars>>

\* WaitStatus::Exited(pid, status)
TracerExited(t) ==
  /\ Alive /\ tpc = "wait"
  /\ ts[t] = "exited"
  /\ CanSend
  /\ chan' = Sent("Exit", t, 0, 0, "none", "tracer")
  /\ nsent' = [nsent EXCEPT !["tracer"] = @ + 1]
  /\ exitSent' = exitSent \cup {t}
  /\ ts' = [ts EXCEPT ![t] = "reaped"]
  /\ UNCHANGED <<sc, mm, present, image, reg, fd, uq, budget>>
  /\ UNCHANGED <<tracerVars, guard, nrecv, exitApplied, preExec, mapsApplied, paged, everReg, replay>>
  /\ UNCHANGED <<workerVars, relayVars, subVars>>

\* WaitStatus::Signaled(pid, signal, core_dump)
TracerSignaled(t) ==
  /\ Alive /\ tpc = "wait"
  /\ ts[t] = "signaled"
  /\ ts' = [ts EXCEPT ![t] = "reaped"]
  /\ UNCHANGED <<sc, mm, present, image, reg, fd, uq, budget>>
  /\ UNCHANGED <<tracerVars, workerVars, chanVars, relayVars, subVars, histVars>>

\* waitpid returned a status for which the match has no arm (Continued,
\* StillAlive): panic!("unexpected wait status") unwinds the thread that
\* runs the tracer.
TracerUnexpected ==
  /\ Alive /\ tpc = "wait"
  /\ "status" \in budget.fail
  /\ tpc' = "panicked"
  /\ UNCHANGED <<envVars, tr, next_parent, tcur, puh>>
  /\ UNCHANGED <<workerVars, chanVars, relayVars, subVars, histVars>>

\* waitpid returned ECHILD: std::process::exit(0) ends every thread.
TracerEchild ==
  /\ Alive /\ tpc = "wait"
  /\ \A t \in Tids : ts[t] \in {"unborn", "reaped"}
  /\ tpc' = "exited"
  /\ UNCHANGED <<envVars, tr, next_parent, tcur, puh>>
  /\ UNCHANGED <<workerVars, chanVars, relayVars, subVars, histVars>>

(* ------------------------- pending-fd registry ------------------------- *)
\* The registry's producer: the userfaultfd the kernel made for the child of
\* a fork of the root tracee (it makes none for vfork and clone, which share
\* the address space) is queued under the parent, by the thread that serves
\* the parent's descriptor, before the parent's next system call.
WorkerPend ==
  /\ Alive /\ wpc \in {"read", "send"}
  /\ fd = "open"
  /\ budget.pend > 0
  /\ sc[RootTid].nr = "fork" /\ ts[ChildTid] # "unborn"
  /\ budget' = [budget EXCEPT !.pend = @ - 1]
  /\ puh' = [puh EXCEPT ![RootTid] = Append(@, ChildTid)]
  /\ UNCHANGED <<ts, sc, mm, present, image, reg, fd, uq>>
  /\ UNCHANGED <<tr, next_parent, tpc, tcur>>
  /\ UNCHANGED <<workerVars, chanVars, relayVars, subVars, histVars>>

(* --------------------------- userfault worker -------------------------- *)
\* listener.accept(), stream.recv_fd(): the preloaded library of the first
\* image of the root tracee hands over its userfaultfd; then
\* tx.send(Connected { uffd }).
WorkerAccept ==
  /\ Alive /\ wpc = "accept"
  /\ ts[RootTid] = "run" /\ image[RootTid] = 0
  /\ CanSend
  /\ fd' = "open"
  /\ chan' = Sent("Connected", RootTid, 1, 0, "LdPreload", "worker")
  /\ nsent' = [nsent EXCEPT !["worker"] = @ + 1]
  /\ wpc' = "read"
  /\ UNCHANGED <<ts, sc, mm, present, image, reg, uq, budget, wev>>
  /\ UNCHANGED <<tracerVars, guard, nrecv, relayVars, subVars, histVars>>

\* What the kernel answers to the zero-fill calls for one page fault: any
\* number of EAGAIN, then success or another error.
ZeroResults ==
  IF "zeropage" \in budget.fail
  THEN {[eagain |-> n, last |-> l] : n \in 0..MaxRetry, l \in {"ok", "error"}}
  ELSE {[eagain |-> 0, last |-> "ok"]}

\* (mutant) every error of the zero-fill is taken as done
ZeroFillAnyway(n, last) == "filled"

\* The loop around uffd.zeropage(addr, page_size, true) for answers of n
\* EAGAIN and then last: Ok breaks out, EAGAIN tries again, any other
\* error panics.
RECURSIVE ZeroFill(_, _)
ZeroFill(n, last) ==
  IF n > 0 THEN ZeroFill(n - 1, last)
  ELSE IF last = "ok" THEN "filled" ELSE "panic"

\* uffd.read_event() returned an event.  A Pagefault is answered by
\* uffd.zeropage(addr, page_size, true), which on success fills the page
\* and wakes the faulting tracee; a Remove needs no answer.  On a
\* descriptor that was closed the calls fail and the thread panics.  seq of
\* the event held says how many of the zero-fill calls returned EAGAIN.
WorkerRead ==
  /\ Alive /\ wpc = "read"
  /\ IF fd = "open"
     THEN /\ uq # <<>>
          /\ uq' = Tail(uq)
          /\ IF Head(uq).kind = "fault"
             THEN \E z \in ZeroResults :
                    /\ wev' = [Head(uq) EXCEPT !.seq = z.eagain]
                    /\ wpc' = IF ZeroFill(z.eagain, z.last) = "filled"
                              THEN "send" ELSE "dead"
                    /\ IF z.last = "ok"
                       THEN /\ present' = [present EXCEPT ![Head(uq).tid] =
                                                           @ \cup {Head(uq).lo}]
                            /\ ts' = [ts EXCEPT ![Head(uq).tid] = "run"]
                       ELSE UNCHANGED <<present, ts>>
             ELSE /\ wev' = Head(uq)
                  /\ wpc' = "send"
                  /\ UNCHANGED <<present, ts>>
     ELSE /\ fd = "closed"
          /\ wpc' = "dead"
          /\ UNCHANGED <<wev, uq, present, ts>>
  \* a panic of the worker unwinds run and drops its Uffd
  /\ fd' = IF wpc' = "dead" THEN "closed" ELSE fd
  /\ UNCHANGED <<sc, mm, image, reg, budget>>
  /\ UNCHANGED <<tracerVars, chanVars, relayVars, subVars, histVars>>

\* The payload the worker sends for a userfault event.
PayloadOf(kind) ==
  CASE kind = "fault" -> "PageIn"
    [] kind = "remove" -> "PageOut"
    [] kind = "unmap" -> "Unmap"
    [] kind = "remap" -> "Remap"

\* tx.send(PageIn { range }) after a Pagefault, tx.send(PageOut { range })
\* after a Remove, tx.send(Unmap { range }) after an Unmap,
\* tx.send(Remap { old_range, new_range }) after a Remap.
WorkerSend ==
  /\ Alive /\ wpc = "send"
  /\ CanSend
  /\ chan' = Append(chan, [Ev(PayloadOf(wev.kind), wev.tid, wev.lo, wev.hi, "none",
                              "worker", nsent["worker"] + 1)
                           EXCEPT !.old = wev.old])
  /\ nsent' = [nsent EXCEPT !["worker"] = @ + 1]
  /\ wpc' = "read"
  /\ wev' = NoEv
  /\ UNCHANGED <<envVars, tracerVars, guard, nrecv, relayVars, subVars, histVars>>

(* ------------------------- broadcast channel --------------------------- *)
\* The receivers of the broadcast channel: rs.payload_tx.subscribe().
Subscribed == {s \in Subs : sub[s] # "off"}

\* blocking_send on the postage broadcast channel of capacity 16: with no
\* receiver the frame is rejected, with a receiver that still has 16
\* frames to read the sender is blocked, otherwise every receiver gets the
\* frame.  Deliver hands over the frames in order as far as the channel
\* takes them; rest are the frames the sender is blocked on.
RECURSIVE Deliver(_, _)
Deliver(inb, frames) ==
  IF frames = <<>> \/ Subscribed = {}
  THEN [inb |-> inb, rest |-> <<>>]
  ELSE IF \E s \in Subscribed : Len(inb[s]) >= BcastCap
  THEN [inb |-> inb, rest |-> frames]
  ELSE Deliver([s \in Subs |-> IF s \in Subscribed
                                THEN Append(inb[s], Head(frames))
                                ELSE inb[s]],
               Tail(frames))

(* -------------------------------- relay -------------------------------- *)
\* (mutant) the batch is emptied and no Batch frame is sent
FlushDropsBatch(T, tid) ==
  [T |-> [T EXCEPT !.batch_size = 0, !.batch = EmptyMap,
                   !.pendIn = {}, !.pendOut = {}],
   frames |-> <<>>]

\* TraceeState::flush: the state after it and the frames it sends.
Flush(T, tid) ==
  IF T.batch_size = 0
  THEN [T |-> T, frames |-> <<>>]
  ELSE [T |-> [T EXCEPT !.batch_size = 0, !.batch = EmptyMap,
                         !.pendIn = {}, !.pendOut = {}],
        frames |-> <<BatchFrame(tid, T.batch)>>]

\* (mutant) the batch keeps only the range added last
AccumulateLast(T, tid, lo, hi, st) ==
  [T |-> [T EXCEPT !.batch = MapInsert(EmptyMap, lo, hi, st),
                   !.batch_size = T.batch_size + 1,
                   !.pendIn = IF st = "Resident" THEN @ \cup RangePages(lo, hi)
                              ELSE @ \ RangePages(lo, hi),
                   !.pendOut = IF st = "Resident" THEN @ \ RangePages(lo, hi)
                               ELSE @ \cup RangePages(lo, hi)],
   frames |-> <<>>]

\* TraceeState::accumulate
Accumulate(T, tid, lo, hi, st) ==
  LET f == IF T.batch_size > BATCH_SIZE THEN Flush(T, tid)
           ELSE [T |-> T, frames |-> <<>>]
  IN [T |-> [f.T EXCEPT !.batch = MapInsert(f.T.batch, lo, hi, st),
                        !.batch_size = f.T.batch_size + 1,
                        !.pendIn = IF st = "Resident" THEN @ \cup RangePages(lo, hi)
                                   ELSE @ \ RangePages(lo, hi),
                        !.pendOut = IF st = "Resident" THEN @ \ RangePages(lo, hi)
                                    ELSE @ \cup RangePages(lo, hi)],
      frames |-> f.frames]

\* Whether descriptor d is open.  Descriptor 1, the one the preload library
\* handed over, is closed when an Uffd that wraps it is dropped.  The
\* descriptor the kernel made for the child is owned by the Uffd in the
\* registry: the tracer's pop_front moves that Uffd into a local of the
\* SIGSTOP arm, and it is dropped, and the descriptor closed, at the end of
\* the arm.
FdOpen(d) ==
  CASE d = RootTid -> fd = "open"
    [] d = ChildTid -> \E t \in Tids : \E i \in 1..Len(puh[t]) : puh[t][i] = d
    [] OTHER -> FALSE

\* uffd.register(start, len) as the kernel answers it: the descriptor the
\* TraceeState holds is open, and the range is mapped in the address space
\* the descriptor belongs to (the first image of the root tracee; for the
\* descriptor the kernel made at the fork, the child).
KernelRegisters(tid, lo, hi) ==
  /\ FdOpen(tracees[tid].ufd)
  /\ \/ /\ tracees[tid].ufd = RootTid /\ tid = RootTid
        /\ image[RootTid] = 0
        /\ RangePages(lo, hi) \subseteq mm[RootTid]
     \/ /\ tracees[tid].ufd = ChildTid /\ tid = ChildTid
        /\ RangePages(lo, hi) \subseteq mm[ChildTid]

\* (mutant) a failed registration still stores the state of the event
RegisterKeepsState(T, tid, lo, hi, st) ==
  LET could_register == T.uffd /\ KernelRegisters(tid, lo, hi)
  IN IF could_register
     THEN [T |-> [T EXCEPT !.map = MapInsert(T.map, lo, hi, st)],
           frames |-> <<>>, registered |-> TRUE]
     ELSE [T |-> [T EXCEPT !.printed_uffd_warning = TRUE,
                           !.map = MapInsert(T.map, lo, hi, st)],
           frames |-> <<BatchFrame(tid, MapInsert(EmptyMap, lo, hi, "Untracked"))>>,
           registered |-> FALSE]

\* TraceeState::register
Register(T, tid, lo, hi, st) ==
  LET could_register == T.uffd /\ KernelRegisters(tid, lo, hi)
  IN IF could_register
     THEN [T |-> [T EXCEPT !.map = MapInsert(T.map, lo, hi, st)],
           frames |-> <<>>, registered |-> TRUE]
     ELSE [T |-> [T EXCEPT !.printed_uffd_warning = TRUE,
                           !.map = MapInsert(T.map, lo, hi, "Untracked")],
           frames |-> <<BatchFrame(tid, MapInsert(EmptyMap, lo, hi, "Untracked"))>>,
           registered |-> FALSE]

\* /proc/<tid>/cmdline read when the TraceeState is created: the command
\* line of the image the process runs, empty for a process that is gone.
Cmdline(tid) == IF Gone(tid) THEN 0 ELSE image[tid] + 1

\* tracees.entry(tid).or_insert_with(..): the dictionary with an entry for
\* tid, and the Start frame sent when the entry is created.
EnsureTracee(trs, tid) ==
  IF trs[tid].live
  THEN [trs |-> trs, frames |-> <<>>]
  ELSE [trs |-> [trs EXCEPT ![tid] = [NoTracee EXCEPT !.live = TRUE,
                                                     !.cmdline = Cmdline(tid)]],
        frames |-> <<StartFrame(tid, Cmdline(tid))>>]

IsPage(ev) == ev.kind \in {"PageIn", "PageOut"}
PageState(ev) == IF ev.kind = "PageIn" THEN "Resident" ELSE "NotResident"

\* (mutant) a non-page event is sent without flushing the batch first
ClassifyNoFlush(T, ev) ==
  IF IsPage(ev)
  THEN Accumulate(T, ev.tid, ev.lo, ev.hi, PageState(ev))
  ELSE [T |-> T, frames |-> <<EvFrame(ev)>>]

\* The first match of the loop body: page events go to the batch, every
\* other event is sent after a flush.
Classify(T, ev) ==
  IF IsPage(ev)
  THEN Accumulate(T, ev.tid, ev.lo, ev.hi, PageState(ev))
  ELSE LET f == Flush(T, ev.tid)
       IN [T |-> f.T, frames |-> f.frames \o <<EvFrame(ev)>>]

\* The orders in which a HashMap iteration may visit the live tracees.
LiveTids(trs) == {t \in Tids : trs[t].live}
Orders(S) ==
  {o \in [1..Cardinality(S) -> S] : \A i, j \in 1..Cardinality(S) : i # j => o[i] # o[j]}

\* (mutant) the timeout leaves the batches as they are
FlushAllSkipped(trs, order) == [trs |-> trs, frames |-> <<>>]

\* for tracee in tracees.values_mut() { tracee.flush(); }
RECURSIVE FlushAll(_, _)
FlushAll(trs, order) ==
  IF order = <<>> THEN [trs |-> trs, frames |-> <<>>]
  ELSE LET t == Head(order)
           f == Flush(trs[t], t)
           rest == FlushAll([trs EXCEPT ![t] = f.T], Tail(order))
       IN [trs |-> rest.trs, frames |-> f.frames \o rest.frames]

\* The Snapshot arm: each tracee in turn is flushed and pushed to the
\* snapshot, then the snapshot is sent.
SnapEntry(T, tid) == [tid |-> tid, cmdline |-> T.cmdline, map |-> T.map]

RECURSIVE SnapshotLoop(_, _)
SnapshotLoop(trs, order) ==
  IF order = <<>> THEN [trs |-> trs, frames |-> <<>>, snap |-> <<>>]
  ELSE LET t == Head(order)
           f == Flush(trs[t], t)
           rest == SnapshotLoop([trs EXCEPT ![t] = f.T], Tail(order))
       IN [trs |-> rest.trs, frames |-> f.frames \o rest.frames,
           snap |-> <<SnapEntry(f.T, t)>> \o rest.snap]

\* (mutant) the snapshot is built and sent without flushing the tracees
OnSnapshotNoFlush(trs, order) ==
  [trs |-> trs,
   frames |-> <<SnapshotFrame(SnapshotLoop(trs, order).snap)>>]

OnSnapshot(trs, order) ==
  LET l == SnapshotLoop(trs, order)
  IN [trs |-> l.trs, frames |-> l.frames \o <<SnapshotFrame(l.snap)>>]

TimeoutEv == Ev("Timeout", NoTid, 0, 0, "none", "none", 0)

\* The relay's variables as one record, so that the steps of one loop
\* iteration compose.
RelayNow ==
  [rpc |-> rpc, tracees |-> tracees, cur |-> cur, outbox |-> outbox,
   emitted |-> emitted, inbox |-> inbox, guard |-> guard, reg |-> reg,
   fd |-> fd, exitApplied |-> exitApplied, preExec |-> preExec,
   mapsApplied |-> mapsApplied, paged |-> paged, everReg |-> everReg,
   replay |-> replay]

\* What a frame does to the map a subscriber keeps for its tracee: Start
\* begins it, Map inserts its state, Batch inserts each of its ranges, Unmap
\* removes, Remap removes the old range and inserts the new one as
\* Resident, Execve clears.
RECURSIVE InsertAll(_, _)
InsertAll(m, batch) ==
  IF batch = <<>> THEN m
  ELSE InsertAll(MapInsert(m, Head(batch).lo, Head(batch).hi, Head(batch).st),
                 Tail(batch))

ReplayFrame(m, f) ==
  CASE f.kind = "Start" -> EmptyMap
    [] f.kind = "Map" -> MapInsert(m, f.lo, f.hi, f.st)
    [] f.kind = "Batch" -> InsertAll(m, f.map)
    [] f.kind = "Unmap" -> MapRemove(m, f.lo, f.hi)
    [] f.kind = "Remap" ->
         MapInsert(MapRemove(m, f.old, f.old + (f.hi - f.lo)), f.lo, f.hi, "Resident")
    [] f.kind = "Execve" -> EmptyMap
    [] OTHER -> m

RECURSIVE Replayed(_, _)
Replayed(rp, frames) ==
  IF frames = <<>> THEN rp
  ELSE LET f == Head(frames)
       IN Replayed(IF f.tid \in Tids
                   THEN [rp EXCEPT ![f.tid] = ReplayFrame(@, f)] ELSE rp,
                   Tail(frames))

\* Frames produced by the relay: handed to blocking_send in order; what the
\* channel does not take yet stays in outbox.
Produce(R, frames) ==
  LET d == Deliver(R.inbox, frames)
  IN [R EXCEPT !.inbox = d.inb, !.outbox = d.rest,
               !.emitted = R.emitted \o frames,
               !.replay = Replayed(R.replay, frames)]

\* The end of a loop iteration: the payload, and with it the guard of a Map,
\* is dropped.
Finish(R) ==
  [R EXCEPT !.rpc = "timed",
            !.guard = IF R.guard = "relay" THEN "none" ELSE R.guard]

\* (mutant) the descriptor of the event replaces the one the tracee has
OnConnectedAdopts(T, ev) == [T EXCEPT !.uffd = TRUE, !.ufd = ev.lo]

\* TraceePayload::Connected { source, uffd }
OnConnected(T, ev) ==
  IF T.uffd THEN T ELSE [T EXCEPT !.uffd = TRUE, !.ufd = ev.lo]

\* The second match of the loop body: the event is applied to the state.
ApplyEvent(R) ==
  LET ev == R.cur
      tid == ev.tid
      T == R.tracees[tid]
  IN CASE ev.kind = "Map" /\ ev.lo >= ev.hi ->
            \* RangeMap::insert panics on a range with start >= end
            [R EXCEPT !.rpc = "dead"]
       [] ev.kind = "Map" ->
            LET r == Register(T, tid, ev.lo, ev.hi, ev.st)
            IN Produce([R EXCEPT !.tracees[tid] = r.T,
                                 !.reg = IF r.registered /\ tid = RootTid
                                         THEN R.reg \cup RangePages(ev.lo, ev.hi)
                                         ELSE R.reg,
                                 !.preExec[tid] = {},
                                 !.mapsApplied[tid] = @ \cup RangePages(ev.lo, ev.hi),
                                 !.paged[tid] = @ \ RangePages(ev.lo, ev.hi),
                                 !.everReg = IF r.registered THEN @ \cup {tid} ELSE @],
                       r.frames)
       [] ev.kind = "Connected" ->
            [R EXCEPT !.tracees[tid] = OnConnected(T, ev)]
       [] ev.kind = "Execve" ->
            [R EXCEPT !.tracees[tid].uffd = FALSE,
                      !.tracees[tid].ufd = 0,
                      !.tracees[tid].map = EmptyMap,
                      !.fd = IF T.uffd /\ tid = RootTid THEN "closed" ELSE R.fd,
                      !.preExec[tid] = MapPages(T.map)]
       [] ev.kind = "PageIn" ->
            [R EXCEPT !.tracees[tid].map = MapInsert(T.map, ev.lo, ev.hi, "Resident"),
                      !.paged[tid] = @ \cup RangePages(ev.lo, ev.hi)]
       [] ev.kind = "PageOut" ->
            [R EXCEPT !.tracees[tid].map = MapInsert(T.map, ev.lo, ev.hi, "NotResident"),
                      !.paged[tid] = @ \cup RangePages(ev.lo, ev.hi)]
       [] ev.kind = "Unmap" ->
            [R EXCEPT !.tracees[tid].map = MapRemove(T.map, ev.lo, ev.hi)]
       [] ev.kind = "Remap" ->
            [R EXCEPT !.tracees[tid].map =
                        MapInsert(MapRemove(T.map, ev.old, ev.old + (ev.hi - ev.lo)),
                                  ev.lo, ev.hi, "Resident"),
                      !.paged[tid] = @ \cup RangePages(ev.lo, ev.hi)]
       [] ev.kind = "Exit" ->
            [R EXCEPT !.tracees[tid] = NoTracee,
                      !.fd = IF T.uffd /\ tid = RootTid THEN "closed" ELSE R.fd,
                      !.exitApplied = R.exitApplied \cup {tid},
                      !.everReg = @ \ {tid}]
       [] OTHER -> R

\* Run the relay on from where R stands until it is blocked in a
\* blocking_send or the iteration ends.
AfterApply(R) ==
  IF R.rpc = "dead"
  THEN [R EXCEPT !.guard = IF R.guard = "relay" THEN "none" ELSE R.guard]
  ELSE IF R.outbox # <<>> THEN [R EXCEPT !.rpc = "post"] ELSE Finish(R)

AfterClassify(R) ==
  IF R.outbox # <<>> THEN [R EXCEPT !.rpc = "pre"]
  ELSE AfterApply(ApplyEvent(R))

AfterFlushAll(R) ==
  IF R.outbox # <<>> THEN [R EXCEPT !.rpc = "flush"] ELSE [R EXCEPT !.rpc = "untimed"]

RelayCommit(R) ==
  /\ rpc' = R.rpc
  /\ tracees' = R.tracees
  /\ cur' = R.cur
  /\ outbox' = R.outbox
  /\ emitted' = R.emitted
  /\ inbox' = R.inbox
  /\ guard' = R.guard
  /\ reg' = R.reg
  /\ fd' = R.fd
  /\ exitApplied' = R.exitApplied
  /\ preExec' = R.preExec
  /\ mapsApplied' = R.mapsApplied
  /\ paged' = R.paged
  /\ everReg' = R.everReg
  /\ replay' = R.replay

\* ev_rx.recv_timeout(interval) or ev_rx.recv() returned an event: the loop
\* body runs on it.
RelayRecv ==
  /\ Alive /\ rpc \in {"timed", "untimed"}
  /\ chan # <<>>
  /\ LET ev == Head(chan)
         R0 == [RelayNow EXCEPT !.cur = ev, !.emitted = <<>>,
                                !.guard = IF ev.kind = "Map" THEN "relay" ELSE guard]
     IN /\ chan' = Tail(chan)
        /\ nrecv' = [nrecv EXCEPT ![ev.src] = @ + 1]
        /\ IF ev.kind = "Snapshot"
           THEN \E order \in Orders(LiveTids(tracees)) :
                  LET r == OnSnapshot(tracees, order)
                  IN RelayCommit(AfterApply(Produce([R0 EXCEPT !.tracees = r.trs], r.frames)))
           ELSE LET e == EnsureTracee(tracees, ev.tid)
                    c == Classify(e.trs[ev.tid], ev)
                IN RelayCommit(AfterClassify(
                     Produce([R0 EXCEPT !.tracees = [e.trs EXCEPT ![ev.tid] = c.T]],
                             e.frames \o c.frames)))
  /\ UNCHANGED <<ts, sc, mm, present, image, uq, budget>>
  /\ UNCHANGED <<tracerVars, workerVars, nsent, sub, first, firstEv, exitSent>>

\* ev_rx.recv_timeout(interval) timed out: every tracee is flushed, then
\* the relay blocks in ev_rx.recv().
RelayTimeout ==
  /\ Alive /\ rpc = "timed"
  /\ chan = <<>>
  /\ \E order \in Orders(LiveTids(tracees)) :
       LET f == FlushAll(tracees, order)
       IN RelayCommit(AfterFlushAll(
            Produce([RelayNow EXCEPT !.cur = TimeoutEv, !.emitted = <<>>,
                                     !.tracees = f.trs],
                    f.frames)))
  /\ UNCHANGED <<ts, sc, mm, present, image, uq, budget>>
  /\ UNCHANGED <<tracerVars, workerVars, chan, nsent, nrecv, sub, first, firstEv, exitSent>>

\* A blocking_send the relay was blocked in returns: the channel has room
\* again, and the relay runs on.
RelaySend ==
  /\ Alive /\ rpc \in {"pre", "post", "flush"}
  /\ LET d == Deliver(inbox, outbox)
         R == [RelayNow EXCEPT !.inbox = d.inb, !.outbox = d.rest]
     IN /\ d.rest # outbox
        /\ CASE rpc = "pre" -> RelayCommit(AfterClassify(R))
             [] rpc = "post" -> RelayCommit(AfterApply(R))
             [] rpc = "flush" -> RelayCommit(AfterFlushAll(R))
  /\ UNCHANGED <<ts, sc, mm, present, image, uq, budget>>
  /\ UNCHANGED <<tracerVars, workerVars, chan, nsent, nrecv, sub, first, firstEv, exitSent>>

(* ----------------------------- subscribers ----------------------------- *)
\* on_upgrade: payload_rx = rs.payload_tx.subscribe()
SubUpgrade(s) ==
  /\ Alive /\ sub[s] = "off"
  /\ budget.subs > 0
  /\ budget' = [budget EXCEPT !.subs = @ - 1]
  /\ sub' = [sub EXCEPT ![s] = "subscribed"]
  /\ UNCHANGED <<ts, sc, mm, present, image, reg, fd, uq>>
  /\ UNCHANGED <<tracerVars, workerVars, chanVars, relayVars, inbox, first, firstEv, histVars>>

\* rs.ev_tx.send(MeviEvent::Snapshot(vec![]))
SubRequest(s) ==
  /\ Alive /\ sub[s] = "subscribed"
  /\ CanSend
  /\ chan' = Sent("Snapshot", NoTid, 0, 0, "none", "sub")
  /\ nsent' = [nsent EXCEPT !["sub"] = @ + 1]
  /\ sub' = [sub EXCEPT ![s] = "on"]
  /\ UNCHANGED <<envVars, tracerVars, workerVars, guard, nrecv, relayVars, inbox, first, firstEv, histVars>>

\* handle_ws: payload_rx.recv() and ws.send() of one frame.
SubRecv(s) ==
  /\ Alive /\ sub[s] = "on"
  /\ inbox[s] # <<>>
  /\ inbox' = [inbox EXCEPT ![s] = Tail(@)]
  /\ first' = [first EXCEPT ![s] = IF @ = "none" THEN Head(inbox[s]).kind ELSE @]
  /\ firstEv' = IF Head(inbox[s]).tid \in Tids /\ firstEv[s][Head(inbox[s]).tid] = "none"
                THEN [firstEv EXCEPT ![s][Head(inbox[s]).tid] = Head(inbox[s]).kind]
                ELSE firstEv
  /\ UNCHANGED <<envVars, tracerVars, workerVars, chanVars, relayVars, sub, histVars>>

(* ---------------------------- specification ---------------------------- *)
Next ==
  \/ \E t \in Tids : \E nr \in {"mmap", "munmap", "mremap", "execve", "fork"} :
       SyscallEnter(t, nr)
  \/ \E t \in Tids : \E p \in 0..(MaxAddr - 1) : Touch(t, p)
  \/ \E t \in Tids : ProcExit(t)
  \/ \E t \in Tids : ProcKill(t)
  \/ \E t \in Tids : TracerSyscallStop(t)
  \/ TracerGuardDone
  \/ \E t \in Tids : TracerSigstop(t)
  \/ \E t \in Tids : TracerPtraceEvent(t)
  \/ \E t \in Tids : TracerExited(t)
  \/ \E t \in Tids : TracerSignaled(t)
  \/ TracerEchild
  \/ WorkerAccept
  \/ WorkerRead
  \/ WorkerSend
  \/ RelayRecv
  \/ RelayTimeout
  \/ \E s \in Subs : SubUpgrade(s)
  \/ \E s \in Subs : SubRequest(s)
  \/ \E s \in Subs : SubRecv(s)

Spec == Init /\ [][Next]_vars

\* The flood of Map events: the root tracee, whose preload library has not
\* connected, maps one page after the other while a subscriber joins and
\* need not read.
InitFlood ==
  /\ ts = [t \in Tids |-> IF t = RootTid THEN "run" ELSE "unborn"]
  /\ sc = [t \in Tids |-> NoSc]
  /\ mm = [t \in Tids |-> {}]
  /\ present = [t \in Tids |-> {}]
  /\ image = [t \in Tids |-> 0]
  /\ reg = {}
  /\ fd = "none"
  /\ uq = <<>>
  /\ budget = [ops |-> MaxFlood, touch |-> 0, subs |-> MaxSubs, evict |-> 0,
               kinds |-> {"mmap"}, maxlen |-> 1, seq |-> FALSE, pend |-> 0, fail |-> {}]
  /\ tr = [t \in Tids |-> [known |-> FALSE, was |-> FALSE, heap |-> NoHeap]]
  /\ next_parent = NoTid
  /\ tpc = "wait"
  /\ tcur = NoTid
  /\ puh = [t \in Tids |-> <<>>]
  /\ wpc = "accept"
  /\ wev = NoEv
  /\ chan = <<>>
  /\ guard = "none"
  /\ nsent = [s \in Sources |-> 0]
  /\ nrecv = [s \in Sources |-> 0]
  /\ rpc = "timed"
  /\ tracees = [t \in Tids |-> NoTracee]
  /\ cur = NoEv
  /\ outbox = <<>>
  /\ emitted = <<>>
  /\ sub = [s \in Subs |-> "off"]
  /\ inbox = [s \in Subs |-> <<>>]
  /\ first = [s \in Subs |-> "none"]
  /\ firstEv = [s \in Subs |-> [t \in Tids |-> "none"]]
  /\ exitApplied = {}
  /\ exitSent = {}
  /\ preExec = [t \in Tids |-> {}]
  /\ mapsApplied = [t \in Tids |-> {}]
  /\ paged = [t \in Tids |-> {}]
  /\ everReg = {}
  /\ replay = [t \in Tids |-> tracees[t].map]

NextFlood ==
  \/ \E t \in Tids : \E nr \in {"mmap"} : SyscallEnter(t, nr)
  \/ \E t \in Tids : TracerSyscallStop(t)
  \/ TracerGuardDone
  \/ RelayRecv
  \/ RelayTimeout
  \/ RelaySend
  \/ \E s \in Subs : SubUpgrade(s)
  \/ \E s \in Subs : SubRequest(s)
  \/ \E s \in Subs : SubRecv(s)

SpecFlood == InitFlood /\ [][NextFlood]_vars

\* The flood of page events: the root tracee has connected, mapped page 0
\* and had it registered; from there it writes to that page and drops it
\* again, over and over, and maps a few pages more.  Nobody has subscribed.
InitPages ==
  /\ ts = [t \in Tids |-> IF t = RootTid THEN "run" ELSE "unborn"]
  /\ sc = [t \in Tids |-> IF t = RootTid THEN [nr |-> "mmap", arg |-> 0, len |-> 1, ret |-> 0] ELSE NoSc]
  /\ mm = [t \in Tids |-> IF t = RootTid THEN {0} ELSE {}]
  /\ present = [t \in Tids |-> {}]
  /\ image = [t \in Tids |-> 0]
  /\ reg = {0}
  /\ fd = "open"
  /\ uq = <<>>
  /\ budget = [ops |-> MaxOps, touch |-> MaxFlood, subs |-> 0, evict |-> MaxFlood,
               kinds |-> {"mmap"}, maxlen |-> 1, seq |-> FALSE, pend |-> 0, fail |-> {}]
  /\ tr = [t \in Tids |-> [known |-> t = RootTid, was |-> FALSE, heap |-> NoHeap]]
  /\ next_parent = NoTid
  /\ tpc = "wait"
  /\ tcur = NoTid
  /\ puh = [t \in Tids |-> <<>>]
  /\ wpc = "read"
  /\ wev = NoEv
  /\ chan = <<>>
  /\ guard = "none"
  /\ nsent = [s \in Sources |-> IF s = "sub" THEN 0 ELSE 1]
  /\ nrecv = [s \in Sources |-> IF s = "sub" THEN 0 ELSE 1]
  /\ rpc = "timed"
  /\ tracees = [t \in Tids |->
                  IF t = RootTid
                  THEN [NoTracee EXCEPT !.live = TRUE, !.cmdline = 1, !.uffd = TRUE, !.ufd = 1,
                                        !.map = <<Ent(0, 1, "NotResident")>>]
                  ELSE NoTracee]
  /\ cur = Ev("Map", RootTid, 0, 1, "NotResident", "tracer", 1)
  /\ outbox = <<>>
  /\ emitted = <<EvFrame(Ev("Map", RootTid, 0, 1, "NotResident", "tracer", 1))>>
  /\ sub = [s \in Subs |-> "off"]
  /\ inbox = [s \in Subs |-> <<>>]
  /\ first = [s \in Subs |-> "none"]
  /\ firstEv = [s \in Subs |-> [t \in Tids |-> "none"]]
  /\ exitApplied = {}
  /\ exitSent = {}
  /\ preExec = [t \in Tids |-> {}]
  /\ mapsApplied = [t \in Tids |-> IF t = RootTid THEN {0} ELSE {}]
  /\ paged = [t \in Tids |-> {}]
  /\ everReg = {RootTid}
  /\ replay = [t \in Tids |-> tracees[t].map]

NextPages ==
  \/ \E t \in Tids : \E nr \in {"mmap"} : SyscallEnter(t, nr)
  \/ \E t \in Tids : TracerSyscallStop(t)
  \/ TracerGuardDone
  \/ \E t \in Tids : \E p \in {0} : Touch(t, p)
  \/ \E t \in Tids : \E p \in {0} : Evict(t, p)
  \/ WorkerRead
  \/ WorkerSend
  \/ RelayRecv
  \/ RelayTimeout

SpecPages == InitPages /\ [][NextPages]_vars

\* The state the flood of page events starts from is one the program
\* reaches (but for what the tracees may still do).
PagesStart ==
  /\ ts = [t \in Tids |-> IF t = RootTid THEN "run" ELSE "unborn"]
  /\ sc[RootTid] = [nr |-> "mmap", arg |-> 0, len |-> 1, ret |-> 0]
  /\ mm[RootTid] = {0} /\ present[RootTid] = {} /\ reg = {0} /\ fd = "open"
  /\ uq = <<>> /\ tpc = "wait" /\ wpc = "read" /\ chan = <<>> /\ guard = "none"
  /\ tr[RootTid] = [known |-> TRUE, was |-> FALSE, heap |-> NoHeap]
  /\ nsent = [s \in Sources |-> IF s = "sub" THEN 0 ELSE 1] /\ nrecv = nsent
  /\ rpc = "timed" /\ outbox = <<>>
  /\ tracees[RootTid] = [NoTracee EXCEPT !.live = TRUE, !.cmdline = 1, !.uffd = TRUE, !.ufd = 1,
                                         !.map = <<Ent(0, 1, "NotResident")>>]
  /\ ~tracees[ChildTid].live
  /\ cur = Ev("Map", RootTid, 0, 1, "NotResident", "tracer", 1)
  /\ emitted = <<EvFrame(cur)>>
  /\ \A s \in Subs : sub[s] = "off"
  /\ mapsApplied[RootTid] = {0}
  /\ paged[RootTid] = {} /\ everReg = {RootTid}
  /\ replay = [t \in Tids |-> tracees[t].map]

\* The state after construction, for tracees that may still do b.
Boot(b) ==
  /\ ts = [t \in Tids |-> IF t = RootTid THEN "run" ELSE "unborn"]
  /\ sc = [t \in Tids |-> NoSc]
  /\ mm = [t \in Tids |-> {}]
  /\ present = [t \in Tids |-> {}]
  /\ image = [t \in Tids |-> 0]
  /\ reg = {}
  /\ fd = "none"
  /\ uq = <<>>
  /\ budget = b
  /\ tr = [t \in Tids |-> [known |-> FALSE, was |-> FALSE, heap |-> NoHeap]]
  /\ next_parent = NoTid
  /\ tpc = "wait"
  /\ tcur = NoTid
  /\ puh = [t \in Tids |-> <<>>]
  /\ wpc = "accept"
  /\ wev = NoEv
  /\ chan = <<>>
  /\ guard = "none"
  /\ nsent = [s \in Sources |-> 0]
  /\ nrecv = [s \in Sources |-> 0]
  /\ rpc = "timed"
  /\ tracees = [t \in Tids |-> NoTracee]
  /\ cur = NoEv
  /\ outbox = <<>>
  /\ emitted = <<>>
  /\ sub = [s \in Subs |-> "off"]
  /\ inbox = [s \in Subs |-> <<>>]
  /\ first = [s \in Subs |-> "none"]
  /\ firstEv = [s \in Subs |-> [t \in Tids |-> "none"]]
  /\ exitApplied = {}
  /\ exitSent = {}
  /\ preExec = [t \in Tids |-> {}]
  /\ mapsApplied = [t \in Tids |-> {}]
  /\ paged = [t \in Tids |-> {}]
  /\ everReg = {}
  /\ replay = [t \in Tids |-> tracees[t].map]

\* Batching: the root tracee maps one range of up to MaxBatch pages and
\* writes to its pages, each once, in any order.
BatchStart ==
  Boot([ops |-> 1, touch |-> MaxBatch, subs |-> 0, evict |-> 0,
        kinds |-> {"mmap"}, maxlen |-> MaxBatch, seq |-> FALSE, pend |-> 0, fail |-> {}])

\* Or: the root tracee has connected, mapped one range of MaxLong pages and
\* had it registered; from there it writes to the pages front to back, in a
\* steady stream (the relay's receive does not time out before the last
\* write).
LongStart ==
  /\ ts = [t \in Tids |-> IF t = RootTid THEN "run" ELSE "unborn"]
  /\ sc = [t \in Tids |-> IF t = RootTid THEN [nr |-> "mmap", arg |-> 0, len |-> MaxLong, ret |-> 0]
                                          ELSE NoSc]
  /\ mm = [t \in Tids |-> IF t = RootTid THEN RangePages(0, MaxLong) ELSE {}]
  /\ present = [t \in Tids |-> {}]
  /\ image = [t \in Tids |-> 0]
  /\ reg = RangePages(0, MaxLong)
  /\ fd = "open"
  /\ uq = <<>>
  /\ budget = [ops |-> 0, touch |-> MaxLong, subs |-> 0, evict |-> 0,
               kinds |-> {}, maxlen |-> 1, seq |-> TRUE, pend |-> 0, fail |-> {}]
  /\ tr = [t \in Tids |-> [known |-> t = RootTid, was |-> FALSE, heap |-> NoHeap]]
  /\ next_parent = NoTid
  /\ tpc = "wait"
  /\ tcur = NoTid
  /\ puh = [t \in Tids |-> <<>>]
  /\ wpc = "read"
  /\ wev = NoEv
  /\ chan = <<>>
  /\ guard = "none"
  /\ nsent = [s \in Sources |-> IF s = "sub" THEN 0 ELSE 1]
  /\ nrecv = [s \in Sources |-> IF s = "sub" THEN 0 ELSE 1]
  /\ rpc = "timed"
  /\ tracees = [t \in Tids |->
                  IF t = RootTid
                  THEN [NoTracee EXCEPT !.live = TRUE, !.cmdline = 1, !.uffd = TRUE, !.ufd = 1,
                                        !.map = <<Ent(0, MaxLong, "NotResident")>>]
                  ELSE NoTracee]
  /\ cur = Ev("Map", RootTid, 0, MaxLong, "NotResident", "tracer", 1)
  /\ outbox = <<>>
  /\ emitted = <<EvFrame(Ev("Map", RootTid, 0, MaxLong, "NotResident", "tracer", 1))>>
  /\ sub = [s \in Subs |-> "off"]
  /\ inbox = [s \in Subs |-> <<>>]
  /\ first = [s \in Subs |-> "none"]
  /\ firstEv = [s \in Subs |-> [t \in Tids |-> "none"]]
  /\ exitApplied = {}
  /\ exitSent = {}
  /\ preExec = [t \in Tids |-> {}]
  /\ mapsApplied = [t \in Tids |-> IF t = RootTid THEN RangePages(0, MaxLong) ELSE {}]
  /\ paged = [t \in Tids |-> {}]
  /\ everReg = {RootTid}
  /\ replay = [t \in Tids |-> tracees[t].map]

InitBatch == BatchStart \/ LongStart

\* The pages a tracee may write to next: any page, or, writing front to
\* back, the first page of its mappings it has not written to.
WritablePages(t) ==
  IF budget.seq
  THEN {p \in mm[t] \ present[t] : \A q \in mm[t] \ present[t] : p <= q}
  ELSE 0..(MaxAddr - 1)

NextBatch ==
  \/ \E t \in Tids : \E nr \in {"mmap"} : SyscallEnter(t, nr)
  \/ \E t \in Tids : TracerSyscallStop(t)
  \/ TracerGuardDone
  \/ \E t \in Tids : \E p \in WritablePages(t) : Touch(t, p)
  \/ WorkerAccept
  \/ WorkerRead
  \/ WorkerSend
  \/ RelayRecv
  \/ (budget.seq => budget.touch = 0) /\ RelayTimeout

SpecBatch == InitBatch /\ [][NextBatch]_vars

\* The heap: the root tracee, connected through its preload library or not
\* yet, moves its program break with brk.
BrkStart ==
  Boot([ops |-> MaxBrkOps, touch |-> 0, subs |-> 0, evict |-> 0,
        kinds |-> {"brk"}, maxlen |-> 1, seq |-> FALSE, pend |-> 0, fail |-> {}])

InitBrk == BrkStart

NextBrk ==
  \/ SyscallEnter(RootTid, "brk")
  \/ TracerSyscallStop(RootTid)
  \/ TracerGuardDone
  \/ WorkerAccept
  \/ WorkerRead
  \/ WorkerSend
  \/ RelayRecv
  \/ RelayTimeout

SpecBrk == InitBrk /\ [][NextBrk]_vars

\* The exec: the root tracee maps, moves its program break and calls
\* execve, which may fail.
ExecStart ==
  Boot([ops |-> MaxOps + 1, touch |-> 0, subs |-> 0, evict |-> 0,
        kinds |-> {"mmap", "brk", "execve"}, maxlen |-> 1, seq |-> FALSE, pend |-> 0,
        fail |-> {"execve"}])

InitExec == ExecStart

NextExec ==
  \/ \E nr \in {"mmap", "brk", "execve"} : SyscallEnter(RootTid, nr)
  \/ TracerSyscallStop(RootTid)
  \/ TracerGuardDone
  \/ WorkerAccept
  \/ WorkerRead
  \/ WorkerSend
  \/ RelayRecv
  \/ RelayTimeout

SpecExec == InitExec /\ [][NextExec]_vars

\* The failing mmap: the root tracee calls mmap, which may fail or be called
\* with length 0, and moves its program break.
MmapStart ==
  Boot([ops |-> MaxOps + 1, touch |-> 0, subs |-> 0, evict |-> 0,
        kinds |-> {"mmap", "brk"}, maxlen |-> MaxLen, seq |-> FALSE, pend |-> 0,
        fail |-> {"mmap"}])

InitMmap == MmapStart

NextMmap ==
  \/ \E nr \in {"mmap", "brk"} : SyscallEnter(RootTid, nr)
  \/ TracerSyscallStop(RootTid)
  \/ TracerGuardDone
  \/ WorkerAccept
  \/ WorkerRead
  \/ WorkerSend
  \/ RelayRecv
  \/ RelayTimeout

SpecMmap == InitMmap /\ [][NextMmap]_vars

\* The kill: the root tracee forks and both call mmap, and a tracee may be
\* killed while the tracer handles a stop of it.
EsrchStart ==
  Boot([ops |-> MaxForkOps, touch |-> 0, subs |-> 0, evict |-> 0,
        kinds |-> {"fork", "mmap"}, maxlen |-> 1, seq |-> FALSE, pend |-> 0,
        fail |-> {"esrch"}])

InitEsrch == EsrchStart

NextEsrch ==
  \/ \E t \in Tids : \E nr \in {"mmap", "fork"} : SyscallEnter(t, nr)
  \/ \E t \in Tids : TracerSyscallStop(t)
  \/ TracerGuardDone
  \/ \E t \in Tids : TracerSigstop(t)
  \/ \E t \in Tids : TracerPtraceEvent(t)
  \/ \E t \in Tids : TracerStopEsrch(t)
  \/ \E t \in Tids : TracerSignaled(t)
  \/ TracerEchild
  \/ WorkerAccept
  \/ RelayRecv
  \/ RelayTimeout

SpecEsrch == InitEsrch /\ [][NextEsrch]_vars

\* The protocol mismatch: the root tracee maps and writes a page while a
\* subscriber listens, and waitpid may return a status the tracer has no
\* arm for.
StatusStart ==
  Boot([ops |-> 2, touch |-> 1, subs |-> MaxSubs, evict |-> 0,
        kinds |-> {"mmap"}, maxlen |-> 1, seq |-> FALSE, pend |-> 0,
        fail |-> {"status"}])

InitStatus == StatusStart

NextStatus ==
  \/ \E t \in Tids : SyscallEnter(t, "mmap")
  \/ \E t \in Tids : \E p \in 0..(MaxAddr - 1) : Touch(t, p)
  \/ \E t \in Tids : TracerSyscallStop(t)
  \/ TracerGuardDone
  \/ TracerUnexpected
  \/ WorkerAccept
  \/ WorkerRead
  \/ WorkerSend
  \/ RelayRecv
  \/ RelayTimeout
  \/ \E s \in Subs : SubUpgrade(s)
  \/ \E s \in Subs : SubRequest(s)
  \/ \E s \in Subs : SubRecv(s)

SpecStatus == InitStatus /\ [][NextStatus]_vars

\* The zero-fill: the root tracee maps a range and writes to it, and the
\* zero-fill of a page fault may return EAGAIN or fail.
ZeroStart ==
  Boot([ops |-> 1, touch |-> MaxLen, subs |-> 0, evict |-> 0,
        kinds |-> {"mmap"}, maxlen |-> MaxLen, seq |-> FALSE, pend |-> 0,
        fail |-> {"zeropage"}])

InitZero == ZeroStart

NextZero ==
  \/ SyscallEnter(RootTid, "mmap")
  \/ TracerSyscallStop(RootTid)
  \/ TracerGuardDone
  \/ \E p \in 0..(MaxAddr - 1) : Touch(RootTid, p)
  \/ WorkerAccept
  \/ WorkerRead
  \/ WorkerSend
  \/ RelayRecv
  \/ RelayTimeout

SpecZero == InitZero /\ [][NextZero]_vars

\* The fork: the root tracee, connected through its preload library, forks
\* a child; both may mmap and exit, and the kernel's descriptor for the
\* child comes in through the registry.
ForkStart ==
  Boot([ops |-> MaxForkOps, touch |-> 0, subs |-> 0, evict |-> 0,
        kinds |-> Spawns \cup {"mmap"}, maxlen |-> 1, seq |-> FALSE, pend |-> 1,
        fail |-> {"sigstop"}])

InitFork == ForkStart

NextFork ==
  \/ \E t \in Tids : \E nr \in Spawns \cup {"mmap"} : SyscallEnter(t, nr)
  \/ \E t \in Tids : ProcExit(t)
  \/ \E t \in Tids : ProcSigstop(t)
  \/ \E t \in Tids : TracerSyscallStop(t)
  \/ TracerGuardDone
  \/ \E t \in Tids : TracerSigstop(t)
  \/ \E t \in Tids : TracerPtraceEvent(t)
  \/ \E t \in Tids : TracerExited(t)
  \/ TracerEchild
  \/ WorkerAccept
  \/ WorkerPend
  \/ RelayRecv
  \/ RelayTimeout

SpecFork == InitFork /\ [][NextFork]_vars

(* ============================== C1 ===================================== *)
SeqElems(q) == {q[i] : i \in 1..Len(q)}
MapsInChan == {e \in SeqElems(chan) : e.kind = "Map"}

\* The page faults and PageIn events that are under way: queued by the
\* kernel, held by the worker, or in the event channel.
PageInsUnderWay ==
  {e \in SeqElems(uq) : e.kind = "fault"}
    \cup (IF wev.kind = "fault" THEN {wev} ELSE {})
    \cup {e \in SeqElems(chan) : e.kind = "PageIn"}

\* The pages of the Maps the tracer has sent for t: those the relay has
\* applied, and those of a Map still in the channel or taken by the relay
\* and not applied yet.
MapsSent(t) ==
  mapsApplied[t]
    \cup UNION {RangePages(e.lo, e.hi) : e \in {m \in MapsInChan : m.tid = t}}
    \cup (IF rpc = "pre" /\ cur.kind = "Map" /\ cur.tid = t
          THEN RangePages(cur.lo, cur.hi) ELSE {})

C1_State ==
  /\ \A e \in MapsInChan : tpc = "guard" /\ tcur = e.tid /\ guard = "chan"
  /\ guard # "none" => tpc = "guard"
  /\ tpc = "guard" => ts[tcur] \in {"exit", "signaled"}
  /\ \A e \in PageInsUnderWay :
        e.lo \in MapsSent(e.tid) => e.lo \in mapsApplied[e.tid]

C1_Action ==
  (tpc = "guard" /\ tpc' = "wait") =>
     /\ nrecv["tracer"] = nsent["tracer"]
     /\ rpc \in {"timed", "untimed"}
     /\ sc[tcur].nr = "mmap" =>
          RangePages(sc[tcur].ret, sc[tcur].ret + sc[tcur].len) \subseteq mapsApplied[tcur]

\* C1: from the moment the tracer sends a Map at a syscall-exit stop until
\* the relay has received it, applied it and tried to register its range,
\* the tracer waits and the tracee stays in that stop (or is dead); the
\* tracer goes on only when the relay is done with the Map.  So every page
\* fault, and every PageIn on its way to the relay, for a page of a Map the
\* tracer has sent is for a page whose Map the relay has applied.
C1_MapBeforePageIn == []C1_State /\ [][C1_Action]_vars

\* A PageIn is in the event channel (its Map was applied before), and a
\* tracee was resumed after the wait for its Map's guard.
C1_Witness ==
  /\ \E e \in SeqElems(chan) : e.kind = "PageIn" /\ e.lo \in mapsApplied[e.tid]
  /\ tpc = "wait"

(* ============================== C2 ===================================== *)
\* C2: the first frame a subscriber takes from the broadcast channel is a
\* Snapshot.
C2_FirstFrameIsSnapshot == \A s \in Subs : first[s] \in {"none", "Snapshot"}

(* ============================== C3 ===================================== *)
\* The relay takes a Snapshot request from the event channel in this step.
SnapshotStep ==
  /\ rpc \in {"timed", "untimed"}
  /\ chan # <<>> /\ Head(chan).kind = "Snapshot"
  /\ chan' = Tail(chan)

Pending(trs) == {t \in Tids : trs[t].live /\ trs[t].batch_size > 0}

C3_Action ==
  SnapshotStep =>
    LET n == Len(emitted')
        snap == emitted'[n].snap
    IN /\ n = Cardinality(Pending(tracees)) + 1
       /\ \A t \in Tids : tracees'[t].batch_size = 0 /\ tracees'[t].batch = EmptyMap
       /\ \A t \in Pending(tracees) :
            \E i \in 1..(n - 1) : emitted'[i] = BatchFrame(t, tracees[t].batch)
       /\ emitted'[n].kind = "Snapshot"
       /\ Len(snap) = Cardinality(LiveTids(tracees))
       /\ \A t \in LiveTids(tracees) :
            \E j \in 1..Len(snap) :
              snap[j] = [tid |-> t, cmdline |-> tracees[t].cmdline,
                         map |-> tracees[t].map]
       /\ \A t \in Tids :
            /\ tracees'[t].live = tracees[t].live
            /\ tracees'[t].map = tracees[t].map
            /\ tracees'[t].uffd = tracees[t].uffd
            /\ tracees'[t].cmdline = tracees[t].cmdline

\* C3: the step in which the relay processes a Snapshot request sends one
\* Batch frame for each tracee that had page updates pending, carrying
\* them, and leaves every batch empty; after these frames it sends exactly
\* one Snapshot, with one entry (tid, cmdline, map) for each tracee of the
\* dictionary and no other entry; the step changes no tracee's map, uffd or
\* cmdline and adds or removes no tracee.
C3_SnapshotProcessing == [][C3_Action]_vars

\* The relay has just answered a Snapshot request: it flushed a pending
\* batch and sent a Snapshot that lists a tracee with a non-empty map.
C3_Witness ==
  /\ cur.kind = "Snapshot" /\ rpc = "timed"
  /\ Len(emitted) >= 2
  /\ emitted[1].kind = "Batch"
  /\ emitted[Len(emitted)].kind = "Snapshot"
  /\ \E j \in 1..Len(emitted[Len(emitted)].snap) :
        emitted[Len(emitted)].snap[j].map # EmptyMap

(* ============================== C4 ===================================== *)
\* C4: a send to the broadcast channel never blocks.  With a subscriber
\* that has 16 frames still to read, the relay is not left waiting in a
\* send with frames in hand, so neither is the tracer left waiting for the
\* guard of a Map the relay holds.
C4_BroadcastNeverBlocks ==
  /\ rpc \in {"timed", "untimed"}
  /\ outbox = <<>>
  /\ guard # "relay"

(* ============================== C5 ===================================== *)
\* The events of one source that are in the event channel, in its order.
RECURSIVE FromSource(_, _)
FromSource(q, src) ==
  IF q = <<>> THEN <<>>
  ELSE IF Head(q).src = src THEN <<Head(q)>> \o FromSource(Tail(q), src)
  ELSE FromSource(Tail(q), src)

C5_State ==
  /\ Len(chan) <= EvCap
  /\ \A src \in Sources :
       LET q == FromSource(chan, src)
       IN /\ Len(q) = nsent[src] - nrecv[src]
          /\ \A i \in 1..Len(q) : q[i].seq = nrecv[src] + i

C5_Action ==
  /\ \A src \in Sources :
       /\ nsent'[src] \in {nsent[src], nsent[src] + 1}
       /\ nrecv'[src] \in {nrecv[src], nrecv[src] + 1}
       /\ nsent'[src] = nsent[src] + 1 =>
            /\ Len(chan) < EvCap
            /\ chan' = Append(chan, chan'[Len(chan')])
            /\ chan'[Len(chan')].src = src
       /\ nrecv'[src] = nrecv[src] + 1 =>
            /\ cur' = Head(chan) /\ cur'.src = src
            /\ cur'.seq = nrecv[src] + 1
  /\ chan' # chan => \E src \in Sources : nsent'[src] # nsent[src] \/ nrecv'[src] # nrecv[src]

FramesAround ==
  SeqElems(emitted) \cup SeqElems(outbox)
    \cup UNION {SeqElems(inbox[s]) : s \in Subs}

C6_State == \A f \in FramesAround : f.kind \notin {"PageIn", "PageOut"}

\* The relay takes an event of a tracee from the event channel in this step.
TraceeEventStep ==
  /\ rpc \in {"timed", "untimed"}
  /\ chan # <<>> /\ Head(chan).kind # "Snapshot"
  /\ chan' = Tail(chan)

C6_Action ==
  TraceeEventStep =>
    LET ev == Head(chan)
        T == tracees[ev.tid]
        n == Len(emitted')
    IN IF IsPage(ev)
       THEN /\ \A i \in 1..n : emitted'[i].kind \in {"Start", "Batch"}
            /\ tracees'[ev.tid].batch_size >= 1
            /\ MapAt(tracees'[ev.tid].batch, ev.lo) = PageState(ev)
       ELSE /\ \E j \in 1..n :
                 /\ emitted'[j] = EvFrame(ev)
                 /\ T.live /\ T.batch_size > 0 =>
                       \E i \in 1..(j - 1) : emitted'[i] = BatchFrame(ev.tid, T.batch)
            /\ tracees'[ev.tid].batch_size = 0
            /\ tracees'[ev.tid].batch = EmptyMap

\* C6: no frame the relay produces is an individual PageIn or PageOut.  A
\* page event the relay receives produces no frame of its own: its update
\* is added to the batch of its tracee.  A non-page event of a tracee gets
\* its own frame, and when the tracee has page updates pending they are
\* sent as a Batch frame before that frame, leaving the batch empty.
C6_PagesOnlyInBatches == []C6_State /\ [][C6_Action]_vars

\* The relay has processed a non-page event of a tracee that had a page
\* update pending: it sent the Batch and then the frame of the event.
C6_Witness ==
  /\ cur.kind \in {"Map", "Connected", "Execve", "Exit"}
  /\ \E i, j \in 1..Len(emitted) :
        /\ i < j
        /\ emitted[i].kind = "Batch" /\ emitted[i].tid = cur.tid
        /\ \E p \in 0..(MaxAddr - 1) : MapAt(emitted[i].map, p) = "Resident"
        /\ emitted[j] = EvFrame(cur)

(* ============================== C7 ===================================== *)
C7_MapStep ==
  (TraceeEventStep /\ Head(chan).kind = "Map") =>
    LET ev == Head(chan)
        t == ev.tid
        n == Len(emitted')
        succeeds == tracees[t].live /\ tracees[t].uffd /\ KernelRegisters(t, ev.lo, ev.hi)
        pages == RangePages(ev.lo, ev.hi)
    IN IF succeeds
       THEN /\ \A p \in pages : MapAt(tracees'[t].map, p) = ev.st
            /\ n >= 1 /\ emitted'[n] = EvFrame(ev)
            /\ \A i \in 1..n : emitted'[i].kind = "Batch" =>
                  emitted'[i] = BatchFrame(t, tracees[t].batch) /\ i < n
            /\ tracees'[t].printed_uffd_warning = tracees[t].printed_uffd_warning
       ELSE /\ \A p \in pages : MapAt(tracees'[t].map, p) = "Untracked"
            /\ n >= 2 /\ emitted'[n - 1] = EvFrame(ev)
            /\ emitted'[n] = BatchFrame(t, <<Ent(ev.lo, ev.hi, "Untracked")>>)
            /\ tracees'[t].printed_uffd_warning

C7_Latch ==
  \A t \in Tids :
    /\ (tracees[t].printed_uffd_warning /\ tracees'[t].live) =>
          tracees'[t].printed_uffd_warning
    /\ (~tracees[t].printed_uffd_warning /\ tracees'[t].printed_uffd_warning) =>
          /\ TraceeEventStep /\ Head(chan).kind = "Map" /\ Head(chan).tid = t
          /\ t \notin exitApplied

\* C7: in the step in which the relay applies Map{range, state} of a
\* tracee: when the tracee has a uffd and the kernel accepts the
\* registration, the map holds state over the range afterwards, the Map
\* frame is the last frame of the step and the latch is unchanged; when
\* the tracee has no uffd or the kernel refuses, the map holds Untracked
\* over the range, the last two frames of the step are the Map frame and a
\* Batch frame that carries exactly the range as Untracked, and the latch
\* is set.  A latch that is set stays set as long as the TraceeState
\* exists, and a latch gets set only by a Map of a tid whose Exit has not
\* been applied.
C7_RegisterOutcome == [][C7_MapStep /\ C7_Latch]_vars

\* The relay has applied a Map for a tracee that has a uffd, the kernel
\* refused the registration, and the range is Untracked.
C7_Witness ==
  /\ cur.kind = "Map" /\ rpc = "timed"
  /\ tracees[cur.tid].live /\ tracees[cur.tid].uffd
  /\ MapAt(tracees[cur.tid].map, cur.lo) = "Untracked"
  /\ tracees[cur.tid].printed_uffd_warning
  /\ Len(emitted) >= 2
  /\ emitted[Len(emitted)] = BatchFrame(cur.tid, <<Ent(cur.lo, cur.hi, "Untracked")>>)

(* ============================== C8 ===================================== *)
\* The snapshot entries of the Snapshot frames the relay just produced.
SnapEntries ==
  UNION {SeqElems(f.snap) : f \in {g \in SeqElems(emitted) : g.kind = "Snapshot"}}

\* C8: right after the relay applied Execve for a tracee, its map is empty
\* and its uffd is absent; and a Snapshot sent after that Execve and before
\* the next Map of the tracee lists for it no page that its map held when
\* the Execve was applied.
C8_NoPreExecRange ==
  /\ (cur.kind = "Execve" /\ rpc \in {"timed", "untimed"}) =>
        tracees[cur.tid].map = EmptyMap /\ ~tracees[cur.tid].uffd
  /\ \A e \in SnapEntries : MapPages(e.map) \cap preExec[e.tid] = {}

(* ============================== C9 ===================================== *)
\* C9: a tid whose Exit the relay has applied has no TraceeState, and the
\* relay produces no frame for it any more (the frames of the iteration
\* that applies the Exit aside).
C9_NothingAfterExit ==
  \A t \in exitApplied :
    /\ ~tracees[t].live
    /\ (cur.kind = "Exit" /\ cur.tid = t)
         \/ /\ \A f \in SeqElems(emitted) : f.tid # t
            /\ \A e \in SnapEntries : e.tid # t

(* ============================== C10 ==================================== *)
\* C10: for every tracee whose termination waitpid has reported to the
\* tracer, by exit or by signal, the tracer has sent Exit.
C10_ExitSentOnTermination == \A t \in Tids : ts[t] = "reaped" => t \in exitSent

(* ============================== C11 ==================================== *)
\* C11: for every subscriber and every tid, the first frame of that tid the
\* subscriber takes from the broadcast channel is Start.
C11_FirstEventIsStart ==
  \A s \in Subs : \A t \in Tids : firstEv[s][t] \in {"none", "Start"}

(* ============================== C12 ==================================== *)
\* The pages of tracee t that this step takes out of its map.
Leaving(t) ==
  {p \in 0..(MaxAddr - 1) :
     MapAt(tracees[t].map, p) # "none" /\ MapAt(tracees'[t].map, p) = "none"}

\* C12: a page that a Map put into the map of a tracee leaves the map only
\* after a PageIn or PageOut for it was applied, or in the step that
\* applies an Unmap that covers it.
C12_Action ==
  \A t \in Tids : \A p \in Leaving(t) \cap mapsApplied[t] :
    \/ p \in paged[t]
    \/ /\ TraceeEventStep /\ Head(chan).kind = "Unmap" /\ Head(chan).tid = t
       /\ Head(chan).lo <= p /\ p < Head(chan).hi

C12_MapAccounted == [][C12_Action]_vars

(* ============================== C13 ==================================== *)
\* The entries of m are non-empty half-open intervals, sorted by start and
\* pairwise disjoint, and no two touching entries carry the same state.
WellFormed(m) ==
  /\ \A i \in 1..Len(m) : m[i].lo < m[i].hi
  /\ \A i \in 1..(Len(m) - 1) :
       /\ m[i].hi <= m[i + 1].lo
       /\ m[i].hi = m[i + 1].lo => m[i].st # m[i + 1].st

\* C13: in every state the relay reaches, after whatever events it has
\* applied, the map (and the pending batch) of every tracee consists of
\* pairwise disjoint half-open intervals sorted by start, and no two
\* touching intervals carry the same state.
C13_MapWellFormed ==
  \A t \in Tids : WellFormed(tracees[t].map) /\ WellFormed(tracees[t].batch)

\* The relay has applied a PageIn, Unmap or Remap that left a map of two
\* or more intervals, two of them touching.
C13_Witness ==
  /\ cur.kind \in {"PageIn", "Unmap", "Remap"}
  /\ rpc = "timed"
  /\ LET m == tracees[cur.tid].map
     IN /\ Len(m) >= 2
        /\ \E i \in 1..(Len(m) - 1) : m[i].hi = m[i + 1].lo

(* ============================== C14 ==================================== *)
\* The frames of this step that are a Batch of t with a Resident range.
ResidentBatches(t) ==
  {i \in 1..Len(emitted') :
     /\ emitted'[i].kind = "Batch" /\ emitted'[i].tid = t
     /\ \E j \in 1..Len(emitted'[i].map) : emitted'[i].map[j].st = "Resident"}

\* m is the interval union of the pages S, all Resident.
ResidentUnion(m, S) ==
  /\ WellFormed(m)
  /\ MapPages(m) = S
  /\ \A j \in 1..Len(m) : m[j].st = "Resident"

\* Tracee t has N >= 1 page updates pending, all of them PageIn events for
\* N distinct pages.
PageInsPending(t) ==
  /\ tracees[t].live
  /\ tracees[t].batch_size > 0
  /\ tracees[t].pendOut = {}
  /\ tracees[t].batch_size = Cardinality(tracees[t].pendIn)

\* A step that flushes such a tracee sends exactly one Batch for it, the
\* union of the N pages.
C14_Flush ==
  \A t \in Tids :
    (PageInsPending(t) /\ tracees'[t].batch_size = 0) =>
      /\ Cardinality(ResidentBatches(t)) = 1
      /\ \A i \in ResidentBatches(t) :
           ResidentUnion(emitted'[i].map, tracees[t].pendIn)

PageInStep == TraceeEventStep /\ Head(chan).kind = "PageIn"

\* Receiving one more PageIn sends no Batch: the update joins the batch.
Joins(t) ==
  /\ tracees'[t].batch_size = tracees[t].batch_size + 1
  /\ \A i \in 1..Len(emitted') : emitted'[i].kind # "Batch"

C14_AnyN == PageInStep => Joins(Head(chan).tid)

C14_UpToLimit ==
  PageInStep =>
    LET t == Head(chan).tid
    IN IF tracees[t].batch_size <= BATCH_SIZE
       THEN Joins(t)
       ELSE /\ tracees'[t].batch_size = 1
            /\ PageInsPending(t) =>
                 /\ Cardinality(ResidentBatches(t)) = 1
                 /\ \A i \in ResidentBatches(t) :
                      ResidentUnion(emitted'[i].map, tracees[t].pendIn)

\* C14 (as stated): for any N, the N PageIn events for distinct pages that
\* the relay receives for a tracee before a flush all join one batch (none
\* of them makes the relay send a Batch), and the flush sends exactly one
\* Batch frame whose MemMap is the interval union of the N pages, all
\* Resident.
C14_BatchIsUnionAnyN == [][C14_Flush /\ C14_AnyN]_vars

\* C14 (amended): the same for N up to BATCH_SIZE + 1 = 513.  A PageIn that
\* arrives when BATCH_SIZE + 1 updates are pending makes the relay send
\* these as one Batch frame (their interval union, all Resident) and start
\* a new batch with the page of that PageIn.
C14_BatchIsUnionUpToLimit == [][C14_Flush /\ C14_UpToLimit]_vars

\* The relay has flushed, after a timeout, a batch of at least MaxBatch
\* pages that arrived one by one and were merged into one interval.
C14_Witness ==
  /\ cur = TimeoutEv
  /\ \E i \in 1..Len(emitted) :
        /\ emitted[i].kind = "Batch"
        /\ Len(emitted[i].map) = 1
        /\ emitted[i].map[1].st = "Resident"
        /\ emitted[i].map[1].hi - emitted[i].map[1].lo >= MaxBatch
(* ============================== C15 ==================================== *)
\* C15: after a fork the relay receives Connected{Fork} for the child's tid,
\* so that the Maps of the child that come later are registered with the
\* child's own uffd: once the child's descriptor has been put in the
\* registry, the relay applies a Map of the child only when it holds that
\* uffd, and registers the range.
C15_ChildMapStep ==
  (/\ TraceeEventStep /\ Head(chan).kind = "Map" /\ Head(chan).tid = ChildTid
   /\ budget.pend = 0) =>
    /\ tracees[ChildTid].live /\ tracees[ChildTid].uffd
    /\ MapAt(tracees'[ChildTid].map, Head(chan).lo) = "NotResident"

C15_ChildConnected == [][C15_ChildMapStep]_vars

\* (reachability) the relay got Connected{Fork} for the child, and a Map of
\* the child that came later is stored as Untracked all the same.
C15_ConnectedUntracked ==
  /\ tracees[ChildTid].live /\ tracees[ChildTid].uffd
  /\ tracees[ChildTid].ufd = ChildTid
  /\ \E i \in 1..Len(tracees[ChildTid].map) :
       tracees[ChildTid].map[i].st = "Untracked"
(* ============================== C16 ==================================== *)
\* C16: when the process has terminated (waitpid returned ECHILD and the
\* tracer called exit(0)), every event the tracer sent is out of the channel
\* and applied by the relay, every Exit among them, and the frames of it
\* have all been handed to the broadcast channel.
C16_DrainedAtExit ==
  tpc = "exited" =>
    /\ \A i \in 1..Len(chan) : chan[i].src # "tracer"
    /\ rpc \in {"timed", "untimed"} /\ outbox = <<>>
    /\ exitSent \subseteq exitApplied
(* ============================== C17 ==================================== *)
BatchesEmpty(trs) ==
  \A t \in Tids : trs[t].batch_size = 0 /\ trs[t].batch = EmptyMap

\* The relay is in, or on its way into, the untimed receive.
Untimed == rpc \in {"flush", "untimed"}

\* The relay goes for the untimed receive only from a timed receive that
\* timed out on an empty channel, having flushed every tracee; an iteration
\* that got an event ends at the timed receive.
C17_Step ==
  /\ (~Untimed /\ Untimed') =>
        rpc = "timed" /\ chan = <<>> /\ cur' = TimeoutEv /\ BatchesEmpty(tracees')
  /\ (rpc \in {"timed", "untimed"} /\ chan' # chan /\ Len(chan') < Len(chan)) =>
        rpc' \in {"pre", "post", "timed"}
  /\ (rpc \in {"pre", "post"}) => rpc' \in {"pre", "post", "timed"}

\* C17: whenever the relay is blocked in the untimed receive every batch is
\* empty; each iteration tries the timed receive first, and the relay
\* flushes all batches and goes to the untimed receive only after a
\* timeout.
C17_UntimedMeansFlushed ==
  /\ [](rpc = "untimed" => BatchesEmpty(tracees))
  /\ [][C17_Step]_vars

\* The timed receive timed out with a page update pending: it was flushed
\* as a Batch and the relay is blocked in the untimed receive.
C17_Witness ==
  /\ rpc = "untimed" /\ cur = TimeoutEv
  /\ \E i \in 1..Len(emitted) : emitted[i].kind = "Batch"
  /\ BatchesEmpty(tracees)
(* ============================== C18 ==================================== *)
\* C18: in every state of the relay, a tracee for which a Map was applied
\* with a successful registration has a uffd in its TraceeState.
C18_RegisteredHasUffd ==
  \A t \in everReg : tracees[t].live /\ tracees[t].uffd
(* ============================== C19 ==================================== *)
\* The tracer handles the SIGSTOP stop of t, a ptrace event stop of t.
SigstopStep(t) == tpc = "wait" /\ ts[t] = "sigstop" /\ ts'[t] # "sigstop"
EventStep(t) == tpc = "wait" /\ ts[t] \in EventStops /\ ts'[t] # ts[t]

C19_Arming ==
  /\ next_parent' \notin {next_parent, NoTid} =>
        \E t \in Tids : EventStep(t) /\ ts[t] = "forkev" /\ next_parent' = t
  /\ \A t \in Tids :
        (EventStep(t) /\ ts[t] \in {"vforkev", "cloneev"}) => next_parent' = next_parent

C19_Sigstop ==
  \A t \in Tids :
    SigstopStep(t) =>
      /\ next_parent' = NoTid
      /\ IF next_parent # NoTid /\ puh[next_parent] # <<>>
         THEN /\ puh' = [puh EXCEPT ![next_parent] = Tail(@)]
              /\ Len(chan') = Len(chan) + 1
              /\ SubSeq(chan', 1, Len(chan)) = chan
              /\ LET e == chan'[Len(chan')]
                 IN /\ e.kind = "Connected" /\ e.st = "Fork" /\ e.tid = t
                    /\ e.lo = Head(puh[next_parent])
         ELSE puh' = puh /\ chan' = chan

\* C19: next_parent is armed only by a PTRACE_EVENT_FORK stop, never by
\* CLONE or VFORK.  A SIGSTOP stop clears next_parent; if it was armed with
\* p and the registry queue of p is non-empty, the front descriptor is
\* popped and exactly one Connected{Fork} for the stopped tid is sent;
\* otherwise (queue empty, or next_parent unarmed) registry and channel
\* are left as they are.
C19_NextParent == [][C19_Arming /\ C19_Sigstop]_vars

\* The child's SIGSTOP was handled with next_parent armed and its descriptor
\* waiting: the descriptor is out of the registry and Connected{Fork} for
\* the child is in the channel.
C19_Witness ==
  /\ next_parent = NoTid /\ budget.pend = 0 /\ puh[RootTid] = <<>>
  /\ ts[ChildTid] \notin {"unborn", "sigstop"}
  /\ \E i \in 1..Len(chan) :
       chan[i].kind = "Connected" /\ chan[i].st = "Fork" /\ chan[i].tid = ChildTid
(* ============================== C20 ==================================== *)
\* The tracer handles the PtraceSyscall stop of t: it resumes t, or waits
\* for the guard of the Map it sent for t.
SyscallStopStep(t) ==
  /\ tpc = "wait" /\ ts[t] \in {"entry", "exit"}
  /\ \/ ts'[t] # ts[t] /\ ts'[t] # "signaled"
     \/ tpc' = "guard" /\ tcur' = t

\* The events the step appends to the channel.
NewEvents ==
  IF Len(chan') > Len(chan) THEN {chan'[i] : i \in (Len(chan) + 1)..Len(chan')} ELSE {}

C20_Step ==
  /\ \A t \in Tids :
        tr'[t].was = (IF SyscallStopStep(t) THEN ~tr[t].was ELSE tr[t].was)
  /\ \A e \in NewEvents :
        e.kind \in {"Map", "Execve"} =>
          SyscallStopStep(e.tid) /\ tr[e.tid].was /\ ts[e.tid] = "exit"
  /\ \A t \in Tids :
        (SyscallStopStep(t) /\ ~tr[t].was) => ts[t] = "entry" /\ chan' = chan

\* C20: was_in_syscall of a tracee starts false, flips on every
\* PtraceSyscall stop of the tracee and on no other stop or step; a Map or
\* Execve is sent only on a stop where it was true, which is a syscall exit,
\* and nothing is sent on a syscall entry.
C20_Toggle ==
  /\ [](\A t \in Tids : ~tr[t].known => ~tr[t].was)
  /\ [][C20_Step]_vars

\* The tracer has sent the Map of a syscall exit stop (was_in_syscall was
\* true and is false again) and waits for its guard.
C20_Witness ==
  /\ tpc = "guard" /\ ts[tcur] = "exit" /\ ~tr[tcur].was /\ tr[tcur].known
  /\ \E i \in 1..Len(chan) : chan[i].kind = "Map" /\ chan[i].tid = tcur
(* ============================== C21 ==================================== *)
\* The tracer handles the exit stop of a brk of t.
BrkExitStep(t) == SyscallStopStep(t) /\ tr[t].was /\ sc[t].nr = "brk"

C21_Step ==
  \A t \in Tids :
    BrkExitStep(t) =>
      LET h == tr[t].heap
          g == tr'[t].heap
          arg == sc[t].arg
          ret == sc[t].ret
      IN IF arg = 0
         THEN /\ g = (IF h.set THEN h ELSE [set |-> TRUE, lo |-> ret, hi |-> ret])
              /\ chan' = chan
         ELSE IF h.set
         THEN /\ g = [set |-> TRUE, lo |-> h.lo, hi |-> ret]
              /\ IF ret > h.hi
                 THEN /\ Len(chan') = Len(chan) + 1
                      /\ \A e \in NewEvents :
                           /\ e.kind = "Map" /\ e.tid = t /\ e.st = "Resident"
                           /\ e.lo = h.hi /\ e.hi = ret
                 ELSE chan' = chan
         ELSE g = h /\ chan' = chan

\* C21: at a brk exit, brk(0) sets heap_range to [ret, ret) when it is
\* unset and changes nothing otherwise; brk(nonzero) with heap_range known
\* sets the top to ret and sends Map{[old_top, ret), Resident} exactly when
\* ret > old_top; brk(nonzero) with heap_range unset sends nothing and
\* leaves it unset.
C21_BrkExit == [][C21_Step]_vars

\* The heap has grown: the Map of the growth is in the channel and the top
\* the tracer knows is its end.
C21_Witness ==
  \E t \in Tids : \E i \in 1..Len(chan) :
    /\ chan[i].kind = "Map" /\ chan[i].tid = t /\ chan[i].st = "Resident"
    /\ chan[i].lo < chan[i].hi
    /\ tr[t].heap.set /\ tr[t].heap.hi = chan[i].hi /\ tr[t].heap.lo < chan[i].lo
(* ============================== C22 ==================================== *)
\* The tracer handles a stop of t and its ptrace call for t returns ESRCH:
\* t was killed in between.
EsrchStep(t) ==
  /\ tpc = "wait"
  /\ ts[t] \in {"entry", "exit", "sigstop"} \cup EventStops
  /\ ts'[t] = "signaled"
  /\ tr' # tr \/ next_parent' # next_parent \/ tpc' # tpc \/ chan' # chan

\* Some tracee other than t waits at a stop for the tracer.
OthersWait(t) ==
  \E u \in Tids \ {t} : ts[u] \in {"entry", "exit", "sigstop"} \cup EventStops

\* C22: an ESRCH from ptrace at a stop of one tracee is ignored at every
\* kind of stop, and the wait loop goes on servicing the other tracees.
\* (At a syscall exit the call that fails is ptrace::getregs, before the
\* resume; those stops are left out here.)
C22_EsrchIgnored ==
  [][\A t \in Tids : (EsrchStep(t) /\ ts[t] # "exit") => tpc' = "wait"]_vars

\* (reachability) the tracer thread is gone after an ESRCH while another
\* tracee sits at a stop.
C22_Stranded ==
  tpc = "panicked" /\ \E t \in Tids : ts[t] = "signaled" /\ OthersWait(t)
(* ============================== C23 ==================================== *)
\* The worker reads a Pagefault and answers it.
FaultReadStep ==
  wpc = "read" /\ wpc' # "read" /\ uq # <<>> /\ uq' = Tail(uq)
    /\ Head(uq).kind = "fault" /\ fd = "open"

C23_Step ==
  /\ FaultReadStep =>
        /\ chan' = chan
        /\ wpc' \in {"send", "dead"}
        /\ wpc' = "send" <=> Head(uq).lo \in present'[Head(uq).tid]
        /\ wpc' = "send" => wev'.kind = "fault" /\ wev'.lo = Head(uq).lo
  /\ \A e \in NewEvents :
        e.kind = "PageIn" =>
          /\ wpc = "send" /\ wev.kind = "fault" /\ wpc' = "read" /\ wev' = NoEv
          /\ Len(chan') = Len(chan) + 1
          /\ e.tid = wev.tid /\ e.lo = wev.lo /\ e.hi = wev.lo + 1
          /\ wev.lo \in present[wev.tid]
  /\ (wpc = "send" /\ wev.kind = "fault" /\ wpc' # wpc) =>
        \E e \in NewEvents : e.kind = "PageIn"
  /\ wpc = "dead" => wpc' = "dead" /\ \A e \in NewEvents : e.src # "worker"

\* C23: for each Pagefault the worker reads it sends exactly one PageIn,
\* for [addr, addr + page_size), and only after the zero-fill succeeded;
\* EAGAIN makes it try again without sending, and any other error of the
\* zero-fill stops the worker with no PageIn sent for the fault.
C23_OnePageInPerFault == [][C23_Step]_vars

\* A PageIn is in the channel for a fault whose zero-fill succeeded, and
\* the worker has stopped on the error that followed the EAGAINs of the
\* zero-fill of another fault.
C23_Witness ==
  /\ wpc = "dead" /\ wev.kind = "fault" /\ wev.lo \notin present[wev.tid]
  /\ wev.seq > 0
  /\ \E i \in 1..Len(chan) : chan[i].kind = "PageIn"
(* ============================== C24 ==================================== *)
\* The relay takes a Connected event from the channel.
ConnectedStep == TraceeEventStep /\ Head(chan).kind = "Connected"

\* The tracee of the event as the Connected arm finds it: created if it was
\* unknown, its batch flushed by the first match.
AtConnected ==
  LET ev == Head(chan)
  IN Classify(EnsureTracee(tracees, ev.tid).trs[ev.tid], ev).T

C24_Step ==
  ConnectedStep =>
    LET ev == Head(chan)
        T == AtConnected
    IN /\ T.uffd =>
            /\ tracees'[ev.tid] = T
            /\ tracees[ev.tid].live
            /\ tracees'[ev.tid].ufd = tracees[ev.tid].ufd
            /\ tracees'[ev.tid].map = tracees[ev.tid].map
       /\ ~T.uffd =>
            /\ tracees'[ev.tid].uffd /\ tracees'[ev.tid].ufd = ev.lo
            /\ tracees'[ev.tid] = [T EXCEPT !.uffd = TRUE, !.ufd = ev.lo]
       /\ \A t \in Tids \ {ev.tid} : tracees'[t] = tracees[t]

\* C24: a Connected event for a tracee that already has a uffd leaves its
\* uffd, its map and the batch the arm finds unchanged, and the descriptor
\* of the event is not adopted; for a tracee without a uffd the descriptor
\* of the event becomes its uffd.
C24_ConnectedKeepsFirst == [][C24_Step]_vars

\* The relay has applied a Connected event that carried another descriptor
\* than the one the tracee holds, and the tracee still holds its own.
C24_Witness ==
  /\ cur.kind = "Connected" /\ rpc = "timed"
  /\ tracees[cur.tid].live /\ tracees[cur.tid].uffd
  /\ tracees[cur.tid].ufd # cur.lo
  /\ tracees[cur.tid].map # EmptyMap
(* ============================== C25 ==================================== *)
\* The threads other than the tracer stand still.
OthersStandStill ==
  UNCHANGED <<workerVars, chanVars, relayVars, subVars>>

\* C25: once the tracer's wait loop has met a wait status it has no arm
\* for, the whole tool has exited: the relay, the userfault worker and the
\* WebSocket server take no further step.
C25_ToolExits == [][tpc = "panicked" => OthersStandStill]_vars

\* (reachability) after the panic of the tracer thread the relay has taken
\* an event of the worker from the channel and a subscriber has been sent a
\* frame.
C25_OthersRunOn ==
  /\ tpc = "panicked"
  /\ cur.src = "worker" /\ rpc = "timed"
  /\ \E s \in Subs : inbox[s] # <<>>
(* ============================== C26 ==================================== *)
\* The relay stands between two iterations of its loop.
RelayAtRest == rpc \in {"timed", "untimed"}

\* C26: whenever the relay is between two events and a tracee it knows has
\* no pending batch, replaying the frames produced for the tracee since its
\* Start, in the order of the broadcast, gives the relay's map of the
\* tracee.
C26_ReplayIsMap ==
  RelayAtRest =>
    \A t \in Tids :
      (tracees[t].live /\ tracees[t].batch_size = 0) => replay[t] = tracees[t].map

\* A tracee's map has been through a Map, a batch with a PageIn that was
\* flushed and the removal of a range, and the replay of its frames agrees
\* with it.
C26_Witness ==
  /\ RelayAtRest
  /\ cur.kind = "Unmap"
  /\ tracees[cur.tid].live /\ tracees[cur.tid].batch_size = 0
  /\ replay[cur.tid] = tracees[cur.tid].map
  /\ paged[cur.tid] # {}
  /\ \E i \in 1..Len(replay[cur.tid]) : replay[cur.tid][i].st = "Resident"
(* ============================== C27 ==================================== *)
\* The tracer handles the exit stop of an execve that returned an error.
FailedExecveStep(t) ==
  SyscallStopStep(t) /\ tr[t].was /\ sc[t].nr = "execve" /\ sc[t].ret = ErrRet

\* C27: at the exit stop of an execve that returned an error the tracer
\* sends no Execve and keeps heap_range, so that the relay keeps the map and
\* the uffd of the tracee.
C27_ExecveOnlyOnSuccess ==
  [][\A t \in Tids :
       FailedExecveStep(t) =>
         /\ tr'[t].heap = tr[t].heap
         /\ \A e \in NewEvents : e.kind # "Execve"]_vars

\* (reachability) the relay has applied the Execve of a tracee that never
\* replaced its image: the uffd is dropped and the map is empty while the
\* tracee still has its mappings.
C27_MapLost ==
  /\ cur.kind = "Execve" /\ rpc = "timed"
  /\ image[cur.tid] = 0 /\ mm[cur.tid] # {}
  /\ tracees[cur.tid].live /\ ~tracees[cur.tid].uffd
  /\ tracees[cur.tid].map = EmptyMap
  /\ cur.tid \in everReg
(* ============================== C28 ==================================== *)
\* The tracee whose fork, vfork or clone made t.
ParentOf(t) == IF t = ChildTid THEN RootTid ELSE NoTid

\* C28: the SIGSTOP stop that finds next_parent armed is the first stop of
\* a child of that parent, and a Connected with source Fork is only sent
\* for such a child.
C28_ArmingGoesToOwnChild ==
  [][\A t \in Tids :
       /\ (SigstopStep(t) /\ next_parent # NoTid) => ParentOf(t) = next_parent
       /\ \A e \in NewEvents :
            (e.kind = "Connected" /\ e.st = "Fork" /\ e.tid = t) =>
               ParentOf(t) = next_parent]_vars

\* (reachability) the relay has been sent a Connected with source Fork for
\* the root tracee, which nobody forked, carrying the descriptor of the
\* child, and the child runs on with no Connected of its own.
C28_WrongTid ==
  /\ \E i \in 1..Len(chan) :
       chan[i].kind = "Connected" /\ chan[i].st = "Fork"
         /\ chan[i].tid = RootTid /\ chan[i].lo = ChildTid
  /\ ts[ChildTid] = "run" /\ next_parent = NoTid
(* ============================== C29 ==================================== *)
\* C29: every Map event the tracer sends carries a range with start < end,
\* and the tracer computes the end of no range with a wrap-around or an
\* overflow, whatever mmap and brk return.
C29_MapRangesProper ==
  /\ \A i \in 1..Len(chan) : chan[i].kind = "Map" => chan[i].lo < chan[i].hi
  /\ tpc # "panicked"

\* (reachability) the relay thread has ended in the insert of a range with
\* start >= end.
C29_RelayPanics == rpc = "dead" /\ cur.kind = "Map" /\ cur.lo >= cur.hi
(* ============================== C30 ==================================== *)
\* The relay adopts the descriptor of a Connected event.
AdoptStep(t) ==
  ConnectedStep /\ Head(chan).tid = t /\ ~AtConnected.uffd

\* The threads that hold an Uffd that wraps descriptor d and closes it when
\* dropped: the worker its local uffd, the relay the uffd of a TraceeState.
Owners(d) ==
  (IF d = RootTid /\ wpc \in {"read", "send"} THEN {"worker"} ELSE {})
    \cup (IF \E t \in Tids : tracees[t].uffd /\ tracees[t].ufd = d
          THEN {"relay"} ELSE {})

C30_State ==
  /\ \A t \in Tids : tracees[t].uffd => FdOpen(tracees[t].ufd)
  /\ \A d \in Tids : Cardinality(Owners(d)) <= 1
  /\ wpc \in {"read", "send"} => fd = "open"

\* C30: the descriptor of a Connected event is open when the relay adopts
\* it and for as long as a TraceeState holds it, at most one thread holds a
\* handle that closes it, and it is not closed while the worker uses it.
C30_SingleOwner ==
  []C30_State /\ [][\A t \in Tids : AdoptStep(t) => FdOpen(Head(chan).lo)]_vars

\* (reachability) the relay holds, for the child, the descriptor the tracer
\* has closed; the relay has closed the descriptor the worker reads from.
C30_AdoptedClosed ==
  /\ tracees[ChildTid].uffd /\ tracees[ChildTid].ufd = ChildTid
  /\ ~FdOpen(ChildTid)

C30_ClosedUnderWorker == wpc = "read" /\ fd = "closed"
====
